---------------------------- MODULE Spec2Model ----------------------------
(***************************************************************************)
(* ShockFlip research backtester: the trade simulator of                   *)
(* src/core/backtest.py (_simulate_trades) and the signal detector of      *)
(* src/core/shockflip_detector.py (detect_shockflip_signals).              *)
(*                                                                         *)
(* Prices, ATR and excursions are integers on a price grid; the grid step  *)
(* is far above the 1e-8 tolerance of np.isclose, so "equal within         *)
(* tolerance" is equality on the grid.  R-multiples (breakeven, trailing   *)
(* arm/floor/gap) are integers, and products with risk_per_unit are exact. *)
(* An optional value (None, NaN, a column not read yet) is the empty       *)
(* sequence and a present value v is <<v>>.                                *)
(*                                                                         *)
(* The feature frame is an input: a bar's columns are drawn the first time *)
(* the program reads them and are kept from then on, so every later read   *)
(* of the same bar sees the same values.                                   *)
(***************************************************************************)
EXTENDS Integers, Sequences, FiniteSets, TLC

VARIABLES
    cfg,        \* BacktestConfig: risk, management attributes (simulator)
    closes,     \* column close, bars read so far: index -> price
    hl,         \* columns high/low, bars read so far: index -> [high, low]
    pc,         \* position in _simulate_trades: "scan", "manage", "done"
    i,          \* outer loop index (0-based bar index)
    cooldown,   \* cooldown counter
    pos,        \* locals of the open-position block (lines 143-298)
    trades,     \* list of recorded trades
    sfcfg,      \* ShockFlipConfig (detector)
    z,          \* column imbalance_z: optional integers (NaN = None)
    delta_z,    \* column delta_z: None when the frame has no such column
    at_upper,   \* column at_upper_extreme
    at_lower,   \* column at_lower_extreme
    det,        \* detector output: None, or the computed columns
    rows,       \* rows of the frame the outer loop has read (index -> row) when
                \* they are kept for a later look, None when they are not
    prev,       \* trade list returned by an earlier call on the same frame
    stats,      \* summary of the trade list: None, or what summarize_trades returned
    tick_files, \* the tick CSV files of tick_dir, in name order (data loader)
    all_bars    \* what resample_ticks_dir_to_bars returned: None, or the bar frame

simVars == <<cfg, closes, hl, pc, i, cooldown, pos, trades>>
detVars == <<sfcfg, z, delta_z, at_upper, at_lower, det>>

obsVars == <<rows, prev, stats>>

ldVars == <<tick_files, all_bars>>

simVarsButPc == <<cfg, closes, hl, i, cooldown, pos, trades>>

vars == <<simVars, detVars, obsVars, ldVars>>

-----------------------------------------------------------------------------
(* Bounds and input domains of the simulator *)

NumBars == 3        \* len(df)
MaxTrades == 2      \* at most MaxTrades positions are opened in a run

None == <<>>
Some(v) == <<v>>
Val(o) == o[1]
IsSome(o) == o # <<>>

Max(a, b) == IF a >= b THEN a ELSE b
Min(a, b) == IF a <= b THEN a ELSE b

\* the price grid, and the ATR column's values: NaN, 0 and one usable value
Prices == 1..4
AtrVals == {None, Some(0), Some(1)}

\* RiskConfig: cooldown_bars and the per-side ATR multipliers
RiskConfigs ==
    {[cooldown_bars |-> cd,
      long |-> [tp_mult |-> 2, sl_mult |-> 1],
      short |-> [tp_mult |-> 3, sl_mult |-> 1]] : cd \in {0, 1}}

\* a value of a filter feature column: NaN or missing, not convertible to a
\* number, or a number
NaNF == [kind |-> "nan", v |-> 0]
BadF == [kind |-> "bad", v |-> 0]
Num(v) == [kind |-> "num", v |-> v]
FeatureVals == {NaNF, BadF, Num(-1), Num(1), Num(2)}

\* the entry filter attributes (_h1_*, _h2_*, _h3_*) when none is attached
NoFilters ==
    [h1_prior_flow_required_sign |-> None,
     h2_div_mode |-> None,
     h2_div_extreme_threshold |-> None,
     h2_div_dead_zone_low |-> None, h2_div_dead_zone_high |-> None,
     h3_atr_pct_low |-> None, h3_atr_pct_high |-> None]

\* one entry filter attached at a time: H1, H2 in both modes (extreme_only also
\* without a threshold), H3
FilterSettings ==
    {[NoFilters EXCEPT !.h1_prior_flow_required_sign = Some(1)],
     [NoFilters EXCEPT !.h2_div_mode = Some("extreme_only"),
                       !.h2_div_extreme_threshold = Some(2)],
     [NoFilters EXCEPT !.h2_div_mode = Some("extreme_only")],
     [NoFilters EXCEPT !.h2_div_mode = Some("dead_zone"),
                       !.h2_div_dead_zone_low = Some(1),
                       !.h2_div_dead_zone_high = Some(2)],
     [NoFilters EXCEPT !.h3_atr_pct_low = Some(1), !.h3_atr_pct_high = Some(2)]}

\* BacktestConfig with the management attributes the scripts attach to it; cost is
\* what fees.taker_bp and slippage_bp take off a trade, in price units
Configs ==
    [risk : RiskConfigs,
     mfe_breakeven_r : {None, Some(1)},
     trailing_enabled : BOOLEAN,
     trailing_arm_r : {Some(1)},
     trailing_floor_r : {Some(0)},
     trailing_gap_r : {Some(1)},
     cost : {1},
     filters : {NoFilters}]

-----------------------------------------------------------------------------
(* Input domains of the detector *)

MaxLen == 2         \* len(features) is at most MaxLen

\* z values: NaN and a few integers around the bands
ZVals == {None} \cup {Some(v) : v \in -3..3}

\* dynamic_percentile and persistence_ratio are fractions num/den
\* delta_z values: NaN and a shock either way
DeltaVals == {None, Some(-3), Some(3)}

Fractions == {[num |-> 1, den |-> 2], [num |-> 1, den |-> 1]}

\* dynamic-threshold settings: (dynamic_enabled, z_window, dynamic_percentile)
DynamicSettings ==
    {[enabled |-> FALSE, z_window |-> 1, pct |-> [num |-> 1, den |-> 1]],
     [enabled |-> TRUE, z_window |-> 1, pct |-> [num |-> 1, den |-> 2]],
     [enabled |-> TRUE, z_window |-> 2, pct |-> [num |-> 1, den |-> 1]]}

ShockFlipConfigs ==
    {[z_window |-> d.z_window, z_band |-> 1, jump_band |-> 2,
      persistence_bars |-> pb, persistence_ratio |-> pr,
      dynamic_enabled |-> d.enabled, dynamic_percentile |-> d.pct,
      require_extreme |-> re] :
        d \in DynamicSettings, pb \in {1, 2}, pr \in Fractions, re \in BOOLEAN}

-----------------------------------------------------------------------------
(* Barrier model (core/barriers.py is not among the sources; from spec 3, 4.3, 7) *)

\* TP = entry + side*ATR*tp_mult, SL = entry - side*ATR*sl_mult, side-specific
\* multipliers; long TP hit if high >= TP, long SL hit if low <= SL; short mirrored.
build_barriers(side, entry, atr, risk, high, low) ==
    LET m == IF side = 1 THEN risk.long ELSE risk.short
        tp == entry + side * atr * m.tp_mult
        sl == entry - side * atr * m.sl_mult
    IN  [tp |-> tp,
         sl |-> sl,
         hit_tp |-> IF side = 1 THEN high >= tp ELSE low <= tp,
         hit_sl |-> IF side = 1 THEN low <= sl ELSE high >= sl]

\* realized P&L: the move in the trade's direction less fees and slippage
compute_trade_pnl(side, entry_price, exit_price, cost) ==
    side * (exit_price - entry_price) - cost

\* the sanity check of a finalized trade, TRUE when it passes: costs set aside,
\* the P&L of a TP is a gain and the P&L of a BE is zero; other labels pass
enforce_tp_sl_invariants(side, result, pnl, entry, exit_price) ==
    LET gross == side * (exit_price - entry)
    IN  /\ result = "TP" => (gross > 0 /\ pnl <= gross)
        /\ result = "BE" => (gross = 0 /\ pnl <= 0)

-----------------------------------------------------------------------------
(* Per-bar management of the open position: backtest.py lines 176-288 *)

\* lines 187-189: running maximum of the favourable excursion
BestFav(best_fav, fav) == IF fav > best_fav THEN fav ELSE best_fav

\* lines 191-192: running minimum of the adverse excursion
WorstAdv(worst_adv, adv) == IF adv < worst_adv THEN adv ELSE worst_adv

\* a lock that needs the excursion to exceed the threshold
BeActiveStrict(be_active, be_threshold_r, risk_per_unit, best_fav) ==
    IF ~be_active /\ IsSome(be_threshold_r) /\ risk_per_unit > 0
    THEN best_fav > Val(be_threshold_r) * risk_per_unit
    ELSE be_active

\* lines 195-203: breakeven lock; risk_per_unit is finite (ATR was checked)
BeActive(be_active, be_threshold_r, risk_per_unit, best_fav) ==
    IF ~be_active /\ IsSome(be_threshold_r) /\ risk_per_unit > 0
    THEN best_fav >= Val(be_threshold_r) * risk_per_unit
    ELSE be_active

\* line 206: the guard of the trailing block
TrailingOn(c, risk_per_unit) ==
    c.trailing_enabled /\ IsSome(c.trailing_arm_r) /\ risk_per_unit > 0

\* lines 208-211: best_mfe_r >= arm_r, with best_mfe_r = best_fav / risk_per_unit
TrailingArmed(c, armed, risk_per_unit, best_fav) ==
    IF TrailingOn(c, risk_per_unit)
    THEN armed \/ best_fav >= Val(c.trailing_arm_r) * risk_per_unit
    ELSE armed

\* a trailing level without the floor: target_r = best_mfe_r - gap_r
TrailSlPriceNoFloor(c, armed, trail_sl_price, side, entry_price, risk_per_unit, best_fav) ==
    IF TrailingOn(c, risk_per_unit) /\ armed
    THEN LET gap_r == IF IsSome(c.trailing_gap_r) THEN Val(c.trailing_gap_r) ELSE 0
             candidate == entry_price + side * (best_fav - gap_r * risk_per_unit)
         IN  IF ~IsSome(trail_sl_price) THEN Some(candidate)
             ELSE IF side = 1 THEN Some(Max(Val(trail_sl_price), candidate))
             ELSE Some(Min(Val(trail_sl_price), candidate))
    ELSE trail_sl_price

\* lines 213-221: target_r * risk_per_unit = max(floor_r, best_mfe_r - gap_r) * risk,
\* the candidate level, and the ratchet (long: max, short: min)
TrailSlPrice(c, armed, trail_sl_price, side, entry_price, risk_per_unit, best_fav) ==
    IF TrailingOn(c, risk_per_unit) /\ armed
    THEN LET floor_r == IF IsSome(c.trailing_floor_r) THEN Val(c.trailing_floor_r) ELSE 0
             gap_r == IF IsSome(c.trailing_gap_r) THEN Val(c.trailing_gap_r) ELSE 0
             target == Max(floor_r * risk_per_unit, best_fav - gap_r * risk_per_unit)
             candidate == entry_price + side * target
         IN  IF ~IsSome(trail_sl_price) THEN Some(candidate)
             ELSE IF side = 1 THEN Some(Max(Val(trail_sl_price), candidate))
             ELSE Some(Min(Val(trail_sl_price), candidate))
    ELSE trail_sl_price

\* lines 238-249: effective stop, moved to breakeven and/or advanced by trailing
EffectiveSL(side, sl, entry_price, be_active, trailing_armed, trail_sl_price) ==
    LET be == IF be_active
              THEN (IF side = 1 THEN Max(sl, entry_price) ELSE Min(sl, entry_price))
              ELSE sl
    IN  IF trailing_armed /\ IsSome(trail_sl_price)
        THEN (IF side = 1 THEN Max(be, Val(trail_sl_price))
                          ELSE Min(be, Val(trail_sl_price)))
        ELSE be

\* a stop test that looks at the low for both sides
HitSlEffLow(side, high, low, sl_eff) == low <= sl_eff

\* line 252
HitSlEff(side, high, low, sl_eff) ==
    IF side = 1 THEN low <= sl_eff ELSE high >= sl_eff

\* a label that calls every exit at a stop away from the entry a loss
StopLabelLoss(side, sl_eff, entry_price) ==
    IF sl_eff = entry_price THEN "BE" ELSE "SL"

\* lines 259-265 and 278-284: label of an exit at the effective stop
StopLabel(side, sl_eff, entry_price) ==
    IF sl_eff = entry_price THEN "BE"
    ELSE IF side = 1 THEN (IF sl_eff >= entry_price THEN "TP" ELSE "SL")
    ELSE (IF sl_eff <= entry_price THEN "TP" ELSE "SL")

\* an exit resolution that only watches the stop: a bar touching TP alone is held
ResolveExitStopOnly(side, entry_price, tp, sl_eff, hit_tp, hit_sl_eff) ==
    IF hit_sl_eff
    THEN Some([result |-> StopLabel(side, sl_eff, entry_price), exit_price |-> sl_eff])
    ELSE None

\* the docstring's flat rule: a bar that hits both barriers is a stop-loss
ResolveExitWorseOutcome(side, entry_price, tp, sl_eff, hit_tp, hit_sl_eff) ==
    IF hit_sl_eff THEN Some([result |-> "SL", exit_price |-> sl_eff])
    ELSE IF hit_tp THEN Some([result |-> "TP", exit_price |-> tp])
    ELSE None

\* lines 254-288: [result, exit_price] of the bar, or None when no barrier fires
ResolveExit(side, entry_price, tp, sl_eff, hit_tp, hit_sl_eff) ==
    IF hit_tp /\ hit_sl_eff
    THEN Some([result |-> StopLabel(side, sl_eff, entry_price), exit_price |-> sl_eff])
    ELSE IF hit_tp THEN Some([result |-> "TP", exit_price |-> tp])
    ELSE IF hit_sl_eff
    THEN Some([result |-> StopLabel(side, sl_eff, entry_price), exit_price |-> sl_eff])
    ELSE None

\* a breakeven lock that follows the current bar's excursion instead of latching
ManageOverlaysBeUnlatched(c, p, j, high, low) ==
    LET fav == p.side * (high - p.entry_price)
        best == BestFav(p.best_fav, fav)
        armed == TrailingArmed(c, p.trailing_armed, p.risk_per_unit, best)
    IN  [p EXCEPT !.j = j,
                  !.best_fav = best,
                  !.time_to_mfe = IF fav > p.best_fav THEN j - p.entry_idx ELSE @,
                  !.worst_adv = WorstAdv(@, p.side * (low - p.entry_price)),
                  !.be_active = IsSome(c.mfe_breakeven_r)
                                /\ fav >= Val(c.mfe_breakeven_r) * p.risk_per_unit,
                  !.trailing_armed = armed,
                  !.trail_sl_price = TrailSlPrice(c, armed, @, p.side, p.entry_price,
                                                  p.risk_per_unit, best)]

\* a trailing level that follows the current bar's excursion instead of ratcheting
ManageOverlaysTrailFollows(c, p, j, high, low) ==
    LET fav == p.side * (high - p.entry_price)
        best == BestFav(p.best_fav, fav)
        armed == TrailingArmed(c, p.trailing_armed, p.risk_per_unit, best)
    IN  [p EXCEPT !.j = j,
                  !.best_fav = best,
                  !.time_to_mfe = IF fav > p.best_fav THEN j - p.entry_idx ELSE @,
                  !.worst_adv = WorstAdv(@, p.side * (low - p.entry_price)),
                  !.be_active = BeActive(@, c.mfe_breakeven_r, p.risk_per_unit, best),
                  !.trailing_armed = armed,
                  !.trail_sl_price = TrailSlPrice(c, armed, None, p.side, p.entry_price,
                                                  p.risk_per_unit, fav)]

\* an excursion tracker that also moves time_to_mfe when a bar ties the best
ManageOverlaysMfeTies(c, p, j, high, low) ==
    LET fav == p.side * (high - p.entry_price)
        adv == p.side * (low - p.entry_price)
        best == BestFav(p.best_fav, fav)
        armed == TrailingArmed(c, p.trailing_armed, p.risk_per_unit, best)
    IN  [p EXCEPT !.j = j,
                  !.best_fav = best,
                  !.time_to_mfe = IF fav >= p.best_fav THEN j - p.entry_idx ELSE @,
                  !.worst_adv = WorstAdv(@, adv),
                  !.be_active = BeActive(@, c.mfe_breakeven_r, p.risk_per_unit, best),
                  !.trailing_armed = armed,
                  !.trail_sl_price = TrailSlPrice(c, armed, @, p.side, p.entry_price,
                                                  p.risk_per_unit, best)]

\* lines 177-224: bar j's excursions, breakeven lock and trailing stop
ManageOverlays(c, p, j, high, low) ==
    LET fav == p.side * (high - p.entry_price)
        adv == p.side * (low - p.entry_price)
        best == BestFav(p.best_fav, fav)
        armed == TrailingArmed(c, p.trailing_armed, p.risk_per_unit, best)
    IN  [p EXCEPT !.j = j,
                  !.best_fav = best,
                  !.time_to_mfe = IF fav > p.best_fav THEN j - p.entry_idx ELSE @,
                  !.worst_adv = WorstAdv(@, adv),
                  !.be_active = BeActive(@, c.mfe_breakeven_r, p.risk_per_unit, best),
                  !.trailing_armed = armed,
                  !.trail_sl_price = TrailSlPrice(c, armed, @, p.side, p.entry_price,
                                                  p.risk_per_unit, best)]

\* barriers sized by the range of the bar at hand instead of the entry bar's ATR
ManageBarriersCurrentRange(c, q, j, high, low) ==
    LET b == build_barriers(q.side, q.entry_price, Max(1, high - low), c.risk, high, low)
        sl_eff == EffectiveSL(q.side, b.sl, q.entry_price, q.be_active,
                              q.trailing_armed, q.trail_sl_price)
        hit_sl_eff == HitSlEff(q.side, high, low, sl_eff)
        ex == ResolveExit(q.side, q.entry_price, b.tp, sl_eff, b.hit_tp, hit_sl_eff)
    IN  [q EXCEPT !.tp = Some(b.tp),
                  !.sl = Some(b.sl),
                  !.hit_tp = b.hit_tp,
                  !.sl_eff = Some(sl_eff),
                  !.hit_sl_eff = hit_sl_eff,
                  !.result = IF IsSome(ex) THEN Some(Val(ex).result) ELSE None,
                  !.exit_price = IF IsSome(ex) THEN Some(Val(ex).exit_price) ELSE None,
                  !.exit_idx = IF IsSome(ex) THEN Some(j) ELSE None]

\* lines 226-288: bar j's barriers, effective stop and exit, on the locals q that
\* ManageOverlays left
ManageBarriers(c, q, j, high, low) ==
    LET b == build_barriers(q.side, q.entry_price, q.atr, c.risk, high, low)
        sl_eff == EffectiveSL(q.side, b.sl, q.entry_price, q.be_active,
                              q.trailing_armed, q.trail_sl_price)
        hit_sl_eff == HitSlEff(q.side, high, low, sl_eff)
        ex == ResolveExit(q.side, q.entry_price, b.tp, sl_eff, b.hit_tp, hit_sl_eff)
    IN  [q EXCEPT !.tp = Some(b.tp),
                  !.sl = Some(b.sl),
                  !.hit_tp = b.hit_tp,
                  !.sl_eff = Some(sl_eff),
                  !.hit_sl_eff = hit_sl_eff,
                  !.result = IF IsSome(ex) THEN Some(Val(ex).result) ELSE None,
                  !.exit_price = IF IsSome(ex) THEN Some(Val(ex).exit_price) ELSE None,
                  !.exit_idx = IF IsSome(ex) THEN Some(j) ELSE None]

\* lines 177-288: one iteration of the inner loop on bar j with the bar's high/low
ManageBar(c, p, j, high, low) ==
    ManageBarriers(c, ManageOverlays(c, p, j, high, low), j, high, low)

\* an entry that leaves the overlay locals as the trade before left them
OpenedPositionKeepsOverlays(c, side, atr, idx, close) ==
    [side |-> side, atr |-> atr, entry_idx |-> idx, entry_price |-> close,
     risk_per_unit |-> atr * (IF side = 1 THEN c.risk.long.sl_mult ELSE c.risk.short.sl_mult),
     best_fav |-> 0, worst_adv |-> 0, time_to_mfe |-> 0,
     be_active |-> pos.be_active, trailing_armed |-> pos.trailing_armed,
     trail_sl_price |-> pos.trail_sl_price,
     j |-> idx, tp |-> None, sl |-> None, hit_tp |-> FALSE,
     sl_eff |-> None, hit_sl_eff |-> FALSE,
     exit_idx |-> None, exit_price |-> None, result |-> None]

\* lines 143-175: the locals of a freshly opened position
OpenedPosition(c, side, atr, idx, close) ==
    [side |-> side, atr |-> atr, entry_idx |-> idx, entry_price |-> close,
     risk_per_unit |-> atr * (IF side = 1 THEN c.risk.long.sl_mult ELSE c.risk.short.sl_mult),
     best_fav |-> 0, worst_adv |-> 0, time_to_mfe |-> 0,
     be_active |-> FALSE, trailing_armed |-> FALSE, trail_sl_price |-> None,
     j |-> idx, tp |-> None, sl |-> None, hit_tp |-> FALSE,
     sl_eff |-> None, hit_sl_eff |-> FALSE,
     exit_idx |-> None, exit_price |-> None, result |-> None]

\* the locals before any position was opened
NoPosition ==
    [side |-> 0, atr |-> 0, entry_idx |-> 0, entry_price |-> 0,
     risk_per_unit |-> 0,
     best_fav |-> 0, worst_adv |-> 0, time_to_mfe |-> 0,
     be_active |-> FALSE, trailing_armed |-> FALSE, trail_sl_price |-> None,
     j |-> 0, tp |-> None, sl |-> None, hit_tp |-> FALSE,
     sl_eff |-> None, hit_sl_eff |-> FALSE,
     exit_idx |-> None, exit_price |-> None, result |-> None]

\* lines 327-352: the trade record appended to the list
TradeRecord(p) ==
    [entry_idx |-> p.entry_idx, exit_idx |-> Val(p.exit_idx), side |-> p.side,
     entry_price |-> p.entry_price, exit_price |-> Val(p.exit_price),
     result |-> Val(p.result), atr |-> p.atr,
     mfe_price |-> p.best_fav, mae_price |-> p.worst_adv,
     time_to_mfe_bars |-> p.time_to_mfe,
     holding_period_bars |-> Val(p.exit_idx) - p.entry_idx,
     pnl |-> compute_trade_pnl(p.side, p.entry_price, Val(p.exit_price), cfg.cost)]

-----------------------------------------------------------------------------
(* Reading the feature frame *)

\* the closes a bar can have, given what was read of it
CloseChoices(k) ==
    IF k \in DOMAIN closes THEN {closes[k]}
    ELSE IF k \in DOMAIN hl THEN hl[k].low .. hl[k].high
    ELSE Prices

\* the high/low a bar can have, given what was read of it
HighLowChoices(k) ==
    IF k \in DOMAIN hl THEN {hl[k]}
    ELSE {b \in [high : Prices, low : Prices] :
            /\ b.low <= b.high
            /\ k \in DOMAIN closes => (b.low <= closes[k] /\ closes[k] <= b.high)}

-----------------------------------------------------------------------------
(* _simulate_trades: backtest.py lines 46-358 *)

\* lines 139-140: np.isfinite(atr) and atr > 0
UsableAtr(atr) == IF IsSome(atr) THEN Val(atr) > 0 ELSE FALSE

\* lines 75-82: H1, prior_flow_sign must be the required sign
H1Pass(f, row) ==
    IF f.h1_prior_flow_required_sign = None THEN TRUE
    ELSE IF row.prior_flow_sign.kind # "num" THEN FALSE
    ELSE row.prior_flow_sign.v = Val(f.h1_prior_flow_required_sign)

\* an H2 gate that lets a value through when it cannot be read as a number
H2PassUnreadable(f, row) ==
    IF f.h2_div_mode = None THEN TRUE
    ELSE IF row.price_flow_div.kind # "num" THEN TRUE
    ELSE LET div_abs == IF row.price_flow_div.v < 0 THEN -row.price_flow_div.v
                        ELSE row.price_flow_div.v
         IN  IF f.h2_div_mode = Some("extreme_only")
             THEN IF f.h2_div_extreme_threshold = None THEN TRUE
                  ELSE ~(div_abs < Val(f.h2_div_extreme_threshold))
             ELSE IF IsSome(f.h2_div_dead_zone_low) /\ IsSome(f.h2_div_dead_zone_high)
                  THEN ~(Val(f.h2_div_dead_zone_low) < div_abs
                         /\ div_abs <= Val(f.h2_div_dead_zone_high))
                  ELSE TRUE

\* lines 88-122: H2, price/flow divergence gate in its two modes
H2Pass(f, row) ==
    IF f.h2_div_mode = None THEN TRUE
    ELSE IF row.price_flow_div.kind # "num" THEN FALSE
    ELSE LET div_abs == IF row.price_flow_div.v < 0 THEN -row.price_flow_div.v
                        ELSE row.price_flow_div.v
         IN  IF f.h2_div_mode = Some("extreme_only")
             THEN IF f.h2_div_extreme_threshold = None THEN TRUE
                  ELSE ~(div_abs < Val(f.h2_div_extreme_threshold))
             ELSE IF IsSome(f.h2_div_dead_zone_low) /\ IsSome(f.h2_div_dead_zone_high)
                  THEN ~(Val(f.h2_div_dead_zone_low) < div_abs
                         /\ div_abs <= Val(f.h2_div_dead_zone_high))
                  ELSE TRUE

\* lines 125-137: H3, ATR percentile within [low, high]
H3Pass(f, row) ==
    IF IsSome(f.h3_atr_pct_low) /\ IsSome(f.h3_atr_pct_high)
    THEN IF row.atr_pct.kind # "num" THEN FALSE
         ELSE Val(f.h3_atr_pct_low) <= row.atr_pct.v
              /\ row.atr_pct.v <= Val(f.h3_atr_pct_high)
    ELSE TRUE

\* lines 74-137
PassesFilters(f, row) == H1Pass(f, row) /\ H2Pass(f, row) /\ H3Pass(f, row)

\* the values a feature column can show: any when its filter reads it
FeatureChoices(read) == IF read THEN FeatureVals ELSE {NaNF}

\* a row without a signal: nothing else of it is read
QuietRow ==
    [shockflip_signal |-> 0, atr |-> None,
     prior_flow_sign |-> NaNF, price_flow_div |-> NaNF, atr_pct |-> NaNF]

\* line 69: the rows bar k can show, given what was read of it
RowChoices(k) ==
    IF IsSome(rows) /\ k \in DOMAIN Val(rows) THEN {Val(rows)[k]}
    ELSE {QuietRow} \cup
         [shockflip_signal : {-1, 1},
          atr : AtrVals,
          prior_flow_sign : FeatureChoices(IsSome(cfg.filters.h1_prior_flow_required_sign)),
          price_flow_div : FeatureChoices(IsSome(cfg.filters.h2_div_mode)),
          atr_pct : FeatureChoices(IsSome(cfg.filters.h3_atr_pct_low)
                                   /\ IsSome(cfg.filters.h3_atr_pct_high))]

\* the rows read so far with bar k's row added, when rows are kept
Remember(k, row) ==
    IF IsSome(rows) THEN Some((k :> row) @@ Val(rows)) ELSE rows

Init ==
    /\ cfg \in Configs
    /\ closes = << >>
    /\ hl = << >>
    /\ pc = "scan"
    /\ i = 0
    /\ cooldown = 0
    /\ pos = NoPosition
    /\ trades = << >>
    /\ sfcfg = CHOOSE c \in ShockFlipConfigs : TRUE
    /\ z = << >> /\ at_upper = << >> /\ at_lower = << >>
    /\ delta_z = None
    /\ det = None
    /\ rows = None
    /\ prev = None
    /\ stats = None
    /\ tick_files = << >> /\ all_bars = None

\* a cooldown that is cleared by the first bar it skips
SkipCooldownClears ==
    /\ pc = "scan" /\ i < NumBars
    /\ cooldown > 0
    /\ cooldown' = 0
    /\ i' = i + 1
    /\ UNCHANGED <<cfg, closes, hl, pc, pos, trades, detVars, obsVars, ldVars>>

\* lines 65-67
SkipCooldown ==
    /\ pc = "scan" /\ i < NumBars
    /\ cooldown > 0
    /\ cooldown' = cooldown - 1
    /\ i' = i + 1
    /\ UNCHANGED <<cfg, closes, hl, pc, pos, trades, detVars, obsVars, ldVars>>

\* lines 69-72: the bar carries no signal
SkipNoSignal ==
    /\ pc = "scan" /\ i < NumBars
    /\ cooldown = 0
    /\ \E row \in RowChoices(i) :
          /\ row.shockflip_signal = 0
          /\ rows' = Remember(i, row)
    /\ i' = i + 1
    /\ UNCHANGED <<cfg, closes, hl, pc, cooldown, pos, trades, detVars, prev, stats, ldVars>>

\* lines 74-137: a signal bar that an entry filter rejects; its ATR is not read
SkipFiltered ==
    /\ pc = "scan" /\ i < NumBars
    /\ cooldown = 0
    /\ \E row \in RowChoices(i) :
          /\ row.shockflip_signal # 0
          /\ ~PassesFilters(cfg.filters, row)
          /\ rows' = Remember(i, [row EXCEPT !.atr = None])
    /\ i' = i + 1
    /\ UNCHANGED <<cfg, closes, hl, pc, cooldown, pos, trades, detVars, prev, stats, ldVars>>

\* lines 139-141: a signal bar whose ATR is NaN or <= 0
SkipBadAtr ==
    /\ pc = "scan" /\ i < NumBars
    /\ cooldown = 0
    /\ \E row \in RowChoices(i) :
          /\ row.shockflip_signal # 0
          /\ PassesFilters(cfg.filters, row)
          /\ ~UsableAtr(row.atr)
          /\ rows' = Remember(i, row)
    /\ i' = i + 1
    /\ UNCHANGED <<cfg, closes, hl, pc, cooldown, pos, trades, detVars, prev, stats, ldVars>>

\* lines 69-175: a signal bar with a usable ATR opens a position at its close
OpenPosition ==
    /\ pc = "scan" /\ i < NumBars
    /\ cooldown = 0
    /\ \E row \in RowChoices(i), close \in CloseChoices(i) :
          /\ row.shockflip_signal # 0
          /\ PassesFilters(cfg.filters, row)
          /\ UsableAtr(row.atr)
          /\ Len(trades) < MaxTrades
          /\ rows' = Remember(i, row)
          /\ closes' = (i :> close) @@ closes
          /\ pos' = OpenedPosition(cfg, row.shockflip_signal, Val(row.atr), i, close)
    /\ pc' = "manage"
    /\ UNCHANGED <<cfg, hl, i, cooldown, trades, detVars, prev, stats, ldVars>>

\* a recording step without the sanity check
FinalizeUnchecked(p) ==
    /\ trades' = Append(trades, TradeRecord(p))
    /\ cooldown' = cfg.risk.cooldown_bars
    /\ i' = i + 1
    /\ pc' = "scan"

\* lines 300-354: compute the P&L, check it against the label (an exception of
\* the check leaves _simulate_trades), record the trade, arm the cooldown, go on
\* with bar i+1
Finalize(p) ==
    LET pnl == compute_trade_pnl(p.side, p.entry_price, Val(p.exit_price), cfg.cost)
    IN  IF enforce_tp_sl_invariants(p.side, Val(p.result), pnl,
                                    p.entry_price, Val(p.exit_price))
        THEN /\ trades' = Append(trades, TradeRecord(p))
             /\ cooldown' = cfg.risk.cooldown_bars
             /\ i' = i + 1
             /\ pc' = "scan"
        ELSE /\ pc' = "aborted"
             /\ UNCHANGED <<trades, cooldown, i>>

\* lines 176-288: the inner loop's next bar
InnerBar ==
    /\ pc = "manage"
    /\ pos.j + 1 < NumBars
    /\ \E b \in HighLowChoices(pos.j + 1) :
          \E p \in {ManageBar(cfg, pos, pos.j + 1, b.high, b.low)} :
              /\ hl' = ((pos.j + 1) :> b) @@ hl
              /\ pos' = p
              /\ IF IsSome(p.exit_idx)
                 THEN Finalize(p)
                 ELSE UNCHANGED <<pc, i, cooldown, trades>>
    /\ UNCHANGED <<cfg, closes, detVars, obsVars, ldVars>>

\* a run out of bars that drops the open position without a record
EndOfDataDropsPosition ==
    /\ pc = "manage"
    /\ pos.j + 1 >= NumBars
    /\ i' = i + 1
    /\ pc' = "scan"
    /\ UNCHANGED <<cfg, closes, hl, cooldown, pos, trades, detVars, obsVars, ldVars>>

\* an end-of-data close that labels by the last bar's close against the TP level
EndOfDataByLevel ==
    /\ pc = "manage"
    /\ pos.j + 1 >= NumBars
    /\ \E close \in CloseChoices(NumBars - 1) :
          LET m == IF pos.side = 1 THEN cfg.risk.long ELSE cfg.risk.short
              reached == pos.side * (close - pos.entry_price) >= pos.atr * m.tp_mult
              p == [pos EXCEPT !.exit_idx = Some(NumBars - 1),
                               !.exit_price = Some(close),
                               !.result = Some(IF reached THEN "TP" ELSE "SL")]
          IN  /\ closes' = ((NumBars - 1) :> close) @@ closes
              /\ pos' = p
              /\ Finalize(p)
    /\ UNCHANGED <<cfg, hl, detVars, obsVars, ldVars>>

\* lines 290-298: the inner loop ran out of bars, close at the last close
EndOfData ==
    /\ pc = "manage"
    /\ pos.j + 1 >= NumBars
    /\ \E close \in CloseChoices(NumBars - 1) :
          LET raw == pos.side * (close - pos.entry_price)
              p == [pos EXCEPT !.exit_idx = Some(NumBars - 1),
                               !.exit_price = Some(close),
                               !.result = Some(IF raw > 0 THEN "TP" ELSE "SL")]
          IN  /\ closes' = ((NumBars - 1) :> close) @@ closes
              /\ pos' = p
              /\ Finalize(p)
    /\ UNCHANGED <<cfg, hl, detVars, obsVars, ldVars>>

\* lines 356-358: the outer loop is over
Finish ==
    /\ pc = "scan" /\ i >= NumBars
    /\ pc' = "done"
    /\ UNCHANGED <<cfg, closes, hl, i, cooldown, pos, trades, detVars, obsVars, ldVars>>

Next ==
    \/ SkipCooldown
    \/ SkipNoSignal
    \/ SkipBadAtr
    \/ OpenPosition
    \/ InnerBar
    \/ EndOfData
    \/ Finish

Spec == Init /\ [][Next]_vars

\* _simulate_trades runs to its end: the two loops are plain for loops over the
\* frame and nothing in them waits, so a step that can be taken is taken
LiveSpec == Init /\ [][Next]_vars /\ WF_vars(Next)

-----------------------------------------------------------------------------
(* _simulate_trades with an entry filter attached; the rows read are kept *)

FltInit ==
    /\ cfg \in {[c EXCEPT !.filters = f] :
                  c \in {CHOOSE c \in Configs :
                            /\ c.risk.cooldown_bars = 1
                            /\ c.mfe_breakeven_r = None
                            /\ ~c.trailing_enabled},
                  f \in FilterSettings}
    /\ closes = << >>
    /\ hl = << >>
    /\ pc = "scan"
    /\ i = 0
    /\ cooldown = 0
    /\ pos = NoPosition
    /\ trades = << >>
    /\ sfcfg = CHOOSE c \in ShockFlipConfigs : TRUE
    /\ z = << >> /\ at_upper = << >> /\ at_lower = << >>
    /\ delta_z = None
    /\ det = None
    /\ rows = Some(<< >>)
    /\ prev = None
    /\ stats = None
    /\ tick_files = << >> /\ all_bars = None

FltNext ==
    \/ SkipCooldown
    \/ SkipNoSignal
    \/ SkipFiltered
    \/ SkipBadAtr
    \/ OpenPosition
    \/ InnerBar
    \/ EndOfData
    \/ Finish

FltSpec == FltInit /\ [][FltNext]_vars

-----------------------------------------------------------------------------
(* _simulate_trades under each trailing setting the scripts can attach:       *)
(* disabled, enabled with its thresholds, and enabled without arm_r (what     *)
(* run_parity_replay.py lines 110-118 leaves when arm_threshold_r is missing) *)

TrlInit ==
    /\ cfg \in {[c EXCEPT !.trailing_arm_r = a, !.trailing_floor_r = f] :
                  c \in {k \in Configs : k.risk.cooldown_bars = 1
                                          /\ k.mfe_breakeven_r = None},
                  a \in {None, Some(1)}, f \in {Some(0), Some(1)}}
    /\ closes = << >>
    /\ hl = << >>
    /\ pc = "scan"
    /\ i = 0
    /\ cooldown = 0
    /\ pos = NoPosition
    /\ trades = << >>
    /\ sfcfg = CHOOSE c \in ShockFlipConfigs : TRUE
    /\ z = << >> /\ at_upper = << >> /\ at_lower = << >>
    /\ delta_z = None
    /\ det = None
    /\ rows = None
    /\ prev = None
    /\ stats = None
    /\ tick_files = << >> /\ all_bars = None

TrlSpec == TrlInit /\ [][Next]_vars

-----------------------------------------------------------------------------
(* _simulate_trades on a frame whose signal column is given from the start,   *)
(* so that bars skipped during a cooldown carry signals too                   *)

\* a signal row with a usable ATR
SignalRow(side) ==
    [shockflip_signal |-> side, atr |-> Some(1),
     prior_flow_sign |-> NaNF, price_flow_div |-> NaNF, atr_pct |-> NaNF]

CdInit ==
    /\ cfg \in {[c EXCEPT !.risk.cooldown_bars = cd] :
                  c \in {CHOOSE k \in Configs : /\ k.mfe_breakeven_r = None
                                                 /\ ~k.trailing_enabled},
                  cd \in {0, 1, 2}}
    /\ rows \in {Some(f) : f \in [0..(NumBars - 1) ->
                                      {QuietRow, SignalRow(1), SignalRow(-1)}]}
    /\ closes = << >>
    /\ hl = << >>
    /\ pc = "scan"
    /\ i = 0
    /\ cooldown = 0
    /\ pos = NoPosition
    /\ trades = << >>
    /\ sfcfg = CHOOSE c \in ShockFlipConfigs : TRUE
    /\ z = << >> /\ at_upper = << >> /\ at_lower = << >>
    /\ delta_z = None
    /\ det = None
    /\ prev = None
    /\ stats = None
    /\ tick_files = << >> /\ all_bars = None

CdNext ==
    \/ SkipCooldown
    \/ SkipNoSignal
    \/ OpenPosition
    \/ InnerBar
    \/ EndOfData
    \/ Finish

CdSpec == CdInit /\ [][CdNext]_vars

-----------------------------------------------------------------------------
(* compute_donchian: features.py lines 53-79, on bars given one by one *)

DonLen == 4         \* len(bars) is at most DonLen

\* the high/low of a bar of the frame
DonBars == {b \in [high : 1..3, low : 1..3] : b.low <= b.high}

\* the Donchian windows tried
DonWindows == {1, 2, 3}

\* a rolling window that makes do with the bars there are (min_periods = 1)
RollingIndicesPartial(t, window) == Some(Max(0, t - window + 1)..t)

\* lines 67-68: rolling(window, min_periods=window): the bars t-window+1 .. t,
\* or None (NaN) while fewer than window bars are there
RollingIndices(t, window) ==
    IF t + 1 < window THEN None ELSE Some((t - window + 1)..t)

\* line 67: high.rolling(window, min_periods=window).max() at bar t
RollingMaxHigh(bars, t, window) ==
    LET K == RollingIndices(t, window)
    IN  IF K = None THEN None
        ELSE Some(CHOOSE m \in {bars[k].high : k \in Val(K)} :
                     \A k \in Val(K) : bars[k].high <= m)

\* line 68: low.rolling(window, min_periods=window).min() at bar t
RollingMinLow(bars, t, window) ==
    LET K == RollingIndices(t, window)
    IN  IF K = None THEN None
        ELSE Some(CHOOSE m \in {bars[k].low : k \in Val(K)} :
                     \A k \in Val(K) : bars[k].low >= m)

\* lines 62-79: the channel and the extreme flags of every bar; a comparison
\* with NaN is False (donchian_loc, a ratio, is not carried)
compute_donchian(bars, window) ==
    [t \in DOMAIN bars |->
        LET dh == RollingMaxHigh(bars, t, window)
            dl == RollingMinLow(bars, t, window)
        IN  [donchian_high |-> dh,
             donchian_low |-> dl,
             at_upper_extreme |-> IF dh = None THEN FALSE ELSE bars[t].high >= Val(dh),
             at_lower_extreme |-> IF dl = None THEN FALSE ELSE bars[t].low <= Val(dl)]]

\* getattr-free: location_filter.donchian_window of the YAML file
WithDonchian(c, w) == ("donchian_window" :> w) @@ c

DonInit ==
    /\ sfcfg \in {WithDonchian(CHOOSE c \in ShockFlipConfigs : TRUE, w) : w \in DonWindows}
    /\ hl = << >>
    /\ rows = None
    /\ pc = "idle"
    /\ cfg = CHOOSE c \in Configs : TRUE
    /\ closes = << >>
    /\ i = 0
    /\ cooldown = 0
    /\ pos = NoPosition
    /\ trades = << >>
    /\ z = << >> /\ at_upper = << >> /\ at_lower = << >>
    /\ delta_z = None
    /\ det = None
    /\ prev = None
    /\ stats = None
    /\ tick_files = << >> /\ all_bars = None

\* one more bar of the frame handed to compute_donchian, index 0 first
AddOhlcBar ==
    /\ pc = "idle" /\ rows = None
    /\ Cardinality(DOMAIN hl) < DonLen
    /\ \E b \in DonBars : hl' = (Cardinality(DOMAIN hl) :> b) @@ hl
    /\ UNCHANGED <<cfg, closes, pc, i, cooldown, pos, trades, detVars, rows, prev, stats, ldVars>>

\* add_core_features line 92: df = compute_donchian(df, window=donchian_window)
ComputeDonchian ==
    /\ pc = "idle" /\ rows = None
    /\ rows' = Some(compute_donchian(hl, sfcfg.donchian_window))
    /\ UNCHANGED <<cfg, closes, hl, pc, i, cooldown, pos, trades, detVars, prev, stats, ldVars>>

DonNext ==
    \/ AddOhlcBar
    \/ ComputeDonchian

DonSpec == DonInit /\ [][DonNext]_vars

-----------------------------------------------------------------------------
(* resample_ticks_dir_to_bars: data_loader.py lines 121-152 and 208-236 *)

MaxFiles == 2       \* CSV files in tick_dir
MaxTicks == 2       \* ticks in one file

\* the timeframe, in the unit of the tick timestamps
Timeframe == 2

\* a tick: timestamp and price (qty and is_buyer_maker do not bear on the bars'
\* timestamps and OHLC)
Ticks == [ts : 0..3, price : {1, 2}]

\* a CSV that _load_single_tick_csv rejects with ValueError (no tick columns)
NonTickCsv == [is_ticks |-> FALSE, ticks |-> << >>]

\* a CSV with the tick columns and the ticks t
TickCsv(t) == [is_ticks |-> TRUE, ticks |-> t]

\* the files tick_dir can hold: a non-tick CSV, or ticks in time order, none too
TickFiles ==
    {NonTickCsv}
    \cup {TickCsv(f) : f \in {g \in UNION {[1..n -> Ticks] : n \in 0..MaxTicks} :
                                   \A k \in 1..(Len(g) - 1) : g[k].ts <= g[k + 1].ts}}

\* resample(timeframe): the bucket of a timestamp, labelled by its left edge
Bucket(ts) == (ts \div Timeframe) * Timeframe

\* line 135: .ohlc() of the ticks of file f that fall into bucket b
BucketBar(f, b) ==
    LET K == {k \in 1..Len(f) : Bucket(f[k].ts) = b}
        first == CHOOSE k \in K : \A m \in K : k <= m
        last == CHOOSE k \in K : \A m \in K : k >= m
    IN  [timestamp |-> b,
         open |-> f[first].price,
         high |-> CHOOSE v \in {f[k].price : k \in K} : \A k \in K : f[k].price <= v,
         low |-> CHOOSE v \in {f[k].price : k \in K} : \A k \in K : f[k].price >= v,
         close |-> f[last].price]

RECURSIVE BarsOfBuckets(_, _)
\* lines 141-152: the bars of the buckets B of file f, by timestamp
BarsOfBuckets(f, B) ==
    IF B = {} THEN << >>
    ELSE LET b == CHOOSE x \in B : \A y \in B : x <= y
         IN  <<BucketBar(f, b)>> \o BarsOfBuckets(f, B \ {b})

\* lines 121-152: the bars of one file's ticks; buckets without a tick have no
\* OHLC and are dropped (line 144)
resample_ticks_to_bars(f) ==
    BarsOfBuckets(f, {Bucket(f[k].ts) : k \in 1..Len(f)})

RECURSIVE ConcatBars(_)
\* lines 220-234: the files' bars one after the other; non-tick CSVs are skipped
ConcatBars(files) ==
    IF files = << >> THEN << >>
    ELSE (IF Head(files).is_ticks THEN resample_ticks_to_bars(Head(files).ticks)
                                  ELSE << >>)
         \o ConcatBars(Tail(files))

\* line 235: sort_values("timestamp"): the orders of s by timestamp; rows with
\* equal timestamps may come out in either order (the default sort is not stable)
SortedByTimestamp(s) ==
    {[k \in 1..Len(s) |-> s[p[k]]] :
        p \in {q \in [1..Len(s) -> 1..Len(s)] :
                 /\ \A a, b \in 1..Len(s) : a # b => q[a] # q[b]
                 /\ \A a \in 1..(Len(s) - 1) : s[q[a]].timestamp <= s[q[a + 1]].timestamp}}

\* the tick files of the directory that load as ticks
ValidTickFiles(files) == {k \in 1..Len(files) : files[k].is_ticks}

LdInit ==
    /\ tick_files = << >>
    /\ all_bars = None
    /\ pc = "idle"
    /\ cfg = CHOOSE c \in Configs : TRUE
    /\ closes = << >>
    /\ hl = << >>
    /\ i = 0
    /\ cooldown = 0
    /\ pos = NoPosition
    /\ trades = << >>
    /\ sfcfg = CHOOSE c \in ShockFlipConfigs : TRUE
    /\ z = << >> /\ at_upper = << >> /\ at_lower = << >>
    /\ delta_z = None
    /\ det = None
    /\ rows = None /\ prev = None /\ stats = None

\* one more CSV file in tick_dir (list_tick_files returns them in name order)
AddTickFile ==
    /\ pc = "idle" /\ all_bars = None
    /\ Len(tick_files) < MaxFiles
    /\ \E f \in TickFiles : tick_files' = Append(tick_files, f)
    /\ UNCHANGED <<simVars, detVars, obsVars, all_bars>>

\* lines 208-236: FileNotFoundError without files, ValueError from
\* resample_ticks_to_bars on a file without ticks (line 131, not caught here) or
\* when every file was skipped (line 232); else the sorted concatenation
ResampleDir ==
    /\ pc = "idle" /\ all_bars = None
    /\ IF \/ tick_files = << >>
          \/ ValidTickFiles(tick_files) = {}
          \/ \E k \in ValidTickFiles(tick_files) : tick_files[k].ticks = << >>
       THEN pc' = "raised" /\ all_bars' = all_bars
       ELSE /\ all_bars' \in {Some(b) : b \in SortedByTimestamp(ConcatBars(tick_files))}
            /\ pc' = pc
    /\ UNCHANGED <<simVarsButPc, detVars, obsVars, tick_files>>

LdNext ==
    \/ AddTickFile
    \/ ResampleDir

LdSpec == LdInit /\ [][LdNext]_vars

-----------------------------------------------------------------------------
(* run_backtest.build_backtest_config followed by _simulate_trades: the       *)
(* research knobs of the YAML file become attributes of the config            *)

\* the filters / risk.mfe_breakeven sections of the YAML file; an absent key is None
YamlConfigs ==
    {[h1_enabled |-> h1, h2_enabled |-> h2, dead_zone_low |-> lo,
      dead_zone_high |-> hi, mfe_enabled |-> be] :
        h1 \in BOOLEAN, h2 \in BOOLEAN, lo \in {None, Some(1)},
        hi \in {None, Some(2)}, be \in {FALSE}}
    \cup {[h1_enabled |-> FALSE, h2_enabled |-> TRUE, dead_zone_low |-> Some(1),
           dead_zone_high |-> Some(2), mfe_enabled |-> TRUE]}

\* run_backtest.py lines 75-93: _h1_prior_flow_required_sign (default -1) when H1
\* is enabled; _h2_div_dead_zone_low, then _h2_div_dead_zone_high, when H2 is
\* enabled, float(None) raising and ending the block; _h2_div_mode is not set
BuildFilters(y) ==
    [NoFilters EXCEPT
        !.h1_prior_flow_required_sign = IF y.h1_enabled THEN Some(-1) ELSE None,
        !.h2_div_dead_zone_low =
            IF y.h2_enabled THEN y.dead_zone_low ELSE None,
        !.h2_div_dead_zone_high =
            IF y.h2_enabled /\ IsSome(y.dead_zone_low) THEN y.dead_zone_high ELSE None]

\* run_backtest.py lines 64-104: the config with its optional attributes;
\* threshold_r defaults to 1.0, no trailing attribute is attached
build_backtest_config(y) ==
    [(CHOOSE c \in Configs : /\ c.risk.cooldown_bars = 1
                             /\ c.mfe_breakeven_r = None
                             /\ ~c.trailing_enabled)
        EXCEPT !.filters = BuildFilters(y),
               !.mfe_breakeven_r = IF y.mfe_enabled THEN Some(1) ELSE None]

\* a long signal row with a usable ATR and the two hypothesis features
HypothesisRow(pfs, div) ==
    [shockflip_signal |-> 1, atr |-> Some(1),
     prior_flow_sign |-> Num(pfs), price_flow_div |-> Num(div), atr_pct |-> NaNF]

BldInit ==
    /\ cfg \in {build_backtest_config(y) : y \in YamlConfigs}
    /\ rows \in {Some(f) : f \in [0..(NumBars - 1) ->
                    {QuietRow, HypothesisRow(1, 1), HypothesisRow(1, -2),
                     HypothesisRow(-1, 2)}]}
    /\ closes = << >>
    /\ hl = << >>
    /\ pc = "scan"
    /\ i = 0
    /\ cooldown = 0
    /\ pos = NoPosition
    /\ trades = << >>
    /\ sfcfg = CHOOSE c \in ShockFlipConfigs : TRUE
    /\ z = << >> /\ at_upper = << >> /\ at_lower = << >>
    /\ delta_z = None
    /\ det = None
    /\ prev = None
    /\ stats = None
    /\ tick_files = << >> /\ all_bars = None

BldNext ==
    \/ SkipCooldown
    \/ SkipNoSignal
    \/ SkipFiltered
    \/ OpenPosition
    \/ InnerBar
    \/ EndOfData
    \/ Finish

BldSpec == BldInit /\ [][BldNext]_vars

-----------------------------------------------------------------------------
(* _simulate_trades called twice on the same frame with the same config: the  *)
(* rows read by the first call are kept and the second call reads them again. *)

RunInit ==
    /\ cfg \in {c \in Configs : IsSome(c.mfe_breakeven_r) /\ c.trailing_enabled}
    /\ closes = << >>
    /\ hl = << >>
    /\ pc = "scan"
    /\ i = 0
    /\ cooldown = 0
    /\ pos = NoPosition
    /\ trades = << >>
    /\ sfcfg = CHOOSE c \in ShockFlipConfigs : TRUE
    /\ z = << >> /\ at_upper = << >> /\ at_lower = << >>
    /\ delta_z = None
    /\ det = None
    /\ rows = Some(<< >>)
    /\ prev = None
    /\ stats = None
    /\ tick_files = << >> /\ all_bars = None

\* a second call whose cooldown counter is the one the first call left
RerunKeepsCooldown ==
    /\ pc = "done" /\ prev = None
    /\ prev' = Some(trades)
    /\ trades' = << >>
    /\ i' = 0
    /\ pos' = NoPosition
    /\ pc' = "scan"
    /\ UNCHANGED <<cfg, closes, hl, cooldown, rows, stats, detVars, ldVars>>

\* lines 57-60: the first call has returned its list; the second call starts
\* with locals of its own (trades = [], cooldown = 0)
Rerun ==
    /\ pc = "done" /\ prev = None
    /\ prev' = Some(trades)
    /\ trades' = << >>
    /\ cooldown' = 0
    /\ i' = 0
    /\ pos' = NoPosition
    /\ pc' = "scan"
    /\ UNCHANGED <<cfg, closes, hl, rows, stats, detVars, ldVars>>

RunNext ==
    \/ SkipCooldown
    \/ SkipNoSignal
    \/ SkipBadAtr
    \/ OpenPosition
    \/ InnerBar
    \/ EndOfData
    \/ Finish
    \/ Rerun

RunSpec == RunInit /\ [][RunNext]_vars

-----------------------------------------------------------------------------
(* The recording block (lines 300-354) on its own: the locals it is entered   *)
(* with are drawn over every label and every pair of prices, also those the   *)
(* loops above never produce, since the sanity check is a net under them.     *)

\* locals of a trade about to be recorded
RecLocals ==
    {[NoPosition EXCEPT !.side = side, !.atr = 1, !.risk_per_unit = 1,
                        !.entry_price = entry,
                        !.exit_idx = Some(0),
                        !.exit_price = Some(exit),
                        !.result = Some(result)] :
        side \in {-1, 1}, entry \in Prices, exit \in Prices,
        result \in {"TP", "SL", "BE"}}

RecInit ==
    /\ cfg \in {[c EXCEPT !.cost = k] : c \in {CHOOSE c \in Configs : TRUE}, k \in {0, 1}}
    /\ pos \in RecLocals
    /\ pc = "record"
    /\ closes = << >> /\ hl = << >>
    /\ i = 0 /\ cooldown = 0
    /\ trades = << >>
    /\ sfcfg = CHOOSE c \in ShockFlipConfigs : TRUE
    /\ z = << >> /\ at_upper = << >> /\ at_lower = << >>
    /\ delta_z = None
    /\ det = None
    /\ rows = None /\ prev = None /\ stats = None
    /\ tick_files = << >> /\ all_bars = None

\* lines 300-354 on the drawn locals
RecordTrade ==
    /\ pc = "record"
    /\ Finalize(pos)
    /\ UNCHANGED <<cfg, closes, hl, pos, detVars, obsVars, ldVars>>

RecNext == RecordTrade

RecSpec == RecInit /\ [][RecNext]_vars

-----------------------------------------------------------------------------
(* summarize_trades (backtest.py lines 361-373) and compute_pf                *)
(* (scripts/analyze_v13_filters.py lines 13-22) on a trade list of which only *)
(* the pnl column is read.  A ratio is kept as [num, den].                    *)

MaxSum == 3         \* len(trades) is at most MaxSum

\* the pnl column's values
PnlVals == -2..2

\* sum of f over the positions K of a list
RECURSIVE SumOver(_, _)
SumOver(f, K) ==
    IF K = {} THEN 0
    ELSE LET k == CHOOSE x \in K : TRUE
         IN  f[k] + SumOver(f, K \ {k})

\* the pnl column of a trade list
PnlColumn(tr) == [k \in 1..Len(tr) |-> tr[k].pnl]

\* lines 361-373
summarize_trades(tr) ==
    IF Len(tr) = 0
    THEN [n |-> 0, win_rate |-> [num |-> 0, den |-> 1], pf |-> [num |-> 0, den |-> 1]]
    ELSE LET pnl == PnlColumn(tr)
             n == Len(tr)
             wins == {k \in 1..n : pnl[k] > 0}
             pos_sum == SumOver(pnl, wins)
             neg_sum == SumOver(pnl, {k \in 1..n : pnl[k] < 0})
         IN  [n |-> n,
              win_rate |-> [num |-> Cardinality(wins), den |-> n],
              pf |-> IF neg_sum < 0 THEN [num |-> pos_sum, den |-> -neg_sum]
                     ELSE [num |-> 0, den |-> 1]]

\* analyze_v13_filters.py lines 13-22: NaN (None) for an empty list and
\* when there is no loss
compute_pf(tr) ==
    IF Len(tr) = 0 THEN None
    ELSE LET pnl == PnlColumn(tr)
             gross_pos == SumOver(pnl, {k \in 1..Len(tr) : pnl[k] > 0})
             gross_neg == -SumOver(pnl, {k \in 1..Len(tr) : pnl[k] < 0})
         IN  IF gross_neg <= 0 THEN None
             ELSE Some([num |-> gross_pos, den |-> gross_neg])

\* a trade list handed to the aggregator
SumInit ==
    /\ trades \in UNION {[1..n -> [pnl : PnlVals]] : n \in 0..MaxSum}
    /\ stats = None
    /\ tick_files = << >> /\ all_bars = None
    /\ pc = "done"
    /\ cfg = CHOOSE c \in Configs : TRUE
    /\ closes = << >> /\ hl = << >>
    /\ i = 0 /\ cooldown = 0
    /\ pos = NoPosition
    /\ sfcfg = CHOOSE c \in ShockFlipConfigs : TRUE
    /\ z = << >> /\ at_upper = << >> /\ at_lower = << >>
    /\ delta_z = None
    /\ det = None
    /\ rows = None /\ prev = None

\* backtest.py line 414: stats = summarize_trades(trades)
Summarize ==
    /\ pc = "done" /\ stats = None
    /\ stats' = Some(summarize_trades(trades))
    /\ UNCHANGED <<cfg, closes, hl, pc, i, cooldown, pos, trades, rows, prev, detVars, ldVars>>

SumNext == Summarize

SumSpec == SumInit /\ [][SumNext]_vars

-----------------------------------------------------------------------------
(* detect_shockflip_signals: shockflip_detector.py.  Bar t of the frame is   *)
(* element t+1 of the sequences.  Thresholds are kept multiplied by the      *)
(* denominator of dynamic_percentile, so that the interpolated quantile is   *)
(* an integer.                                                               *)

Abs(v) == IF v < 0 THEN -v ELSE v
Sgn(v) == IF v > 0 THEN 1 ELSE IF v < 0 THEN -1 ELSE 0

\* the scale of the threshold column
Scale(c) == c.dynamic_percentile.den

\* a window that never drops a bar: the whole history up to t
RollWindowWholeHistory(zs, c, t) ==
    {k \in 1..t : IsSome(zs[k])}

\* lines 31-35: the non-NaN |z| of the rolling window ending at t
\* (window 4 * z_window), as the set of their positions
RollWindow(zs, c, t) ==
    {k \in Max(1, t - 4 * c.z_window + 1)..t : IsSome(zs[k])}

\* the r-th smallest (r = 0, 1, ...) of the |z| at positions K
Sorted(zs, K, r) ==
    CHOOSE v \in {Abs(Val(zs[k])) : k \in K} :
        /\ Cardinality({k \in K : Abs(Val(zs[k])) < v}) <= r
        /\ r < Cardinality({k \in K : Abs(Val(zs[k])) <= v})

\* line 36: rolling quantile with linear interpolation, times Scale(c);
\* None (NaN) when the window holds fewer than min_periods = z_window values
RollQuantile(zs, c, t) ==
    LET K == RollWindow(zs, c, t)
        n == Cardinality(K)
        q == c.dynamic_percentile
        lo == (q.num * (n - 1)) \div q.den
        rem == (q.num * (n - 1)) % q.den
    IN  IF n < c.z_window \/ n = 0 THEN None
        ELSE IF rem = 0 THEN Some(q.den * Sorted(zs, K, lo))
        ELSE Some(q.den * Sorted(zs, K, lo)
                  + (Sorted(zs, K, lo + 1) - Sorted(zs, K, lo)) * rem)

\* a threshold that ignores dynamic_enabled
compute_dynamic_jump_threshold_always(zs, c) ==
    [t \in 1..Len(zs) |->
        LET local_pct == RollQuantile(zs, c, t)
        IN  Max(Scale(c) * c.jump_band,
                IF IsSome(local_pct) THEN Val(local_pct)
                ELSE Scale(c) * c.jump_band)]

\* lines 22-38: the jump threshold column (times Scale(c))
compute_dynamic_jump_threshold(zs, c) ==
    [t \in 1..Len(zs) |->
        IF ~c.dynamic_enabled THEN Scale(c) * c.jump_band
        ELSE LET local_pct == RollQuantile(zs, c, t)
             IN  Max(Scale(c) * c.jump_band,
                     IF IsSome(local_pct) THEN Val(local_pct)
                     ELSE Scale(c) * c.jump_band)]

\* line 72: cond_jump; a comparison with NaN is False
CondJump(zs, c, jump_threshold, t) ==
    IF IsSome(zs[t]) THEN Scale(c) * Abs(Val(zs[t])) >= jump_threshold[t] ELSE FALSE

\* line 73: cond_band
CondBand(zs, c, t) ==
    IF IsSome(zs[t]) THEN Abs(Val(zs[t])) >= c.z_band ELSE FALSE

\* lines 88-90: ok[k] for the bar k of the window ending at t
PersOk(zs, c, t, k) ==
    IF IsSome(zs[k]) /\ IsSome(zs[t])
    THEN Sgn(Val(zs[k])) = Sgn(Val(zs[t])) /\ Abs(Val(zs[k])) >= c.z_band
    ELSE FALSE

\* a persistence test that averages over the bars there are during warm-up
PersShortWindow(zs, c, t) ==
    LET window == Min(c.persistence_bars, t)
        ratio == c.persistence_ratio
        n == Cardinality({k \in (t - window + 1)..t : PersOk(zs, c, t, k)})
    IN  n * ratio.den >= ratio.num * window

\* lines 77-91: pers[t]; False while fewer than persistence_bars bars exist
Pers(zs, c, t) ==
    LET window == c.persistence_bars
        ratio == c.persistence_ratio
        n == Cardinality({k \in (t - window + 1)..t : PersOk(zs, c, t, k)})
    IN  IF t - 1 < window - 1 THEN FALSE
        ELSE n * ratio.den >= ratio.num * window

\* ~cfg.require_extreme on a Python bool is the integer complement: ~True = -2,
\* ~False = -1
Invert(b) == IF b THEN -2 ELSE -1

\* lines 105, 112: (~cfg.require_extreme) | flag, an integer OR-ed bitwise with a
\* boolean column (-2 | True = -1, -2 | False = -2, -1 | x = -1), then read as a
\* boolean: non-zero is True
LocationGate(require_extreme, flag) ==
    LET n == Invert(require_extreme)
        bits == IF n = -2 THEN (IF flag THEN -1 ELSE -2) ELSE -1
    IN  bits # 0

\* lines 100-106
LongCond(zs, c, jump_threshold, lower, t) ==
    /\ IsSome(zs[t]) /\ Sgn(Val(zs[t])) > 0
    /\ CondJump(zs, c, jump_threshold, t)
    /\ CondBand(zs, c, t)
    /\ Pers(zs, c, t)
    /\ LocationGate(c.require_extreme, lower[t])

\* lines 107-113
ShortCond(zs, c, jump_threshold, upper, t) ==
    /\ IsSome(zs[t]) /\ Sgn(Val(zs[t])) < 0
    /\ CondJump(zs, c, jump_threshold, t)
    /\ CondBand(zs, c, t)
    /\ Pers(zs, c, t)
    /\ LocationGate(c.require_extreme, upper[t])

\* bool(getattr(cfg, "_debug", False)): the flag is an attribute the scripts
\* attach; a config without it has diagnostics off
Debug(c) == IF "_debug" \in DOMAIN c THEN c._debug ELSE FALSE

\* lines 66-138: the columns the detector computes; with _debug set (lines
\* 124-136) the frame also carries the sf_* columns
detect_shockflip_signals(zs, upper, lower, c) ==
    LET jump_threshold == compute_dynamic_jump_threshold(zs, c)
        signal == [t \in 1..Len(zs) |->
                     IF ShortCond(zs, c, jump_threshold, upper, t) THEN -1
                     ELSE IF LongCond(zs, c, jump_threshold, lower, t) THEN 1
                     ELSE 0]
    IN  IF Debug(c)
        THEN [jump_threshold |-> jump_threshold,
              shockflip_signal |-> signal,
              shockflip_z |-> zs,
              sf_cond_jump |-> [t \in 1..Len(zs) |-> CondJump(zs, c, jump_threshold, t)],
              sf_cond_band |-> [t \in 1..Len(zs) |-> CondBand(zs, c, t)],
              sf_pers |-> [t \in 1..Len(zs) |-> Pers(zs, c, t)],
              sf_at_upper |-> upper,
              sf_at_lower |-> lower,
              sf_sign |-> [t \in 1..Len(zs) |->
                             IF IsSome(zs[t]) THEN Some(Sgn(Val(zs[t]))) ELSE None],
              sf_long_cond |-> [t \in 1..Len(zs) |->
                                  LongCond(zs, c, jump_threshold, lower, t)],
              sf_short_cond |-> [t \in 1..Len(zs) |->
                                   ShortCond(zs, c, jump_threshold, upper, t)]]
        ELSE [jump_threshold |-> jump_threshold,
              shockflip_signal |-> signal,
              shockflip_z |-> zs]

\* the detector's inputs before any bar was fed; the simulator is not running
DetInit ==
    /\ sfcfg \in ShockFlipConfigs
    /\ z = << >> /\ at_upper = << >> /\ at_lower = << >>
    /\ delta_z = None
    /\ det = None
    /\ cfg = CHOOSE c \in Configs : TRUE
    /\ closes = << >> /\ hl = << >>
    /\ pc = "idle" /\ i = 0 /\ cooldown = 0
    /\ pos = NoPosition /\ trades = << >>
    /\ rows = None /\ prev = None /\ stats = None
    /\ tick_files = << >> /\ all_bars = None

\* cfg.source; the dataclass default (line 10) is "imbalance"
Source(c) == IF "source" \in DOMAIN c THEN c.source ELSE "imbalance"

\* a source selection that falls back to imbalance_z instead of raising
SelectSourceFallback(c, imbalance_z, dz) ==
    IF Source(c) = "delta" /\ IsSome(dz) THEN dz ELSE Some(imbalance_z)

\* lines 57-64: the z column the detector works on; None when it raises
\* ValueError (unsupported source, or source "delta" without a delta_z column)
SelectSource(c, imbalance_z, dz) ==
    IF Source(c) = "imbalance" THEN Some(imbalance_z)
    ELSE IF Source(c) = "delta"
         THEN (IF dz = None THEN None ELSE dz)
         ELSE None

\* the feature frame grows by one bar (the caller's input)
AddBar ==
    /\ pc = "idle" /\ det = None
    /\ Len(z) < MaxLen
    /\ \E v \in ZVals, u \in BOOLEAN, l \in BOOLEAN :
          /\ z' = Append(z, v)
          /\ at_upper' = Append(at_upper, u)
          /\ at_lower' = Append(at_lower, l)
    /\ IF IsSome(delta_z)
       THEN \E v \in DeltaVals : delta_z' = Some(Append(Val(delta_z), v))
       ELSE delta_z' = delta_z
    /\ UNCHANGED <<sfcfg, det, simVars, obsVars, ldVars>>

\* one call of detect_shockflip_signals on the frame: it works on a copy (line
\* 55) and either raises or returns the frame with the signal columns
Detect ==
    /\ pc = "idle" /\ det = None
    /\ LET zsel == SelectSource(sfcfg, z, delta_z)
       IN  IF zsel = None
           THEN pc' = "raised" /\ det' = det
           ELSE /\ det' = Some(detect_shockflip_signals(Val(zsel), at_upper,
                                                        at_lower, sfcfg))
                /\ pc' = pc
    /\ UNCHANGED <<sfcfg, z, delta_z, at_upper, at_lower, simVarsButPc, obsVars, ldVars>>

DetNext ==
    \/ AddBar
    \/ Detect

DetSpec == DetInit /\ [][DetNext]_vars

\* the detector with the dynamic threshold enabled, on frames longer than the
\* lookback of 4 * z_window bars
DynLen == 5         \* len(features) is at most DynLen

\* z values around the bands (z_band 1, jump_band 2), and NaN
DynZVals == {None, Some(1), Some(-3), Some(4)}

DynInit ==
    /\ sfcfg \in {[c EXCEPT !.dynamic_enabled = TRUE, !.z_window = w,
                             !.dynamic_percentile = p] :
                      c \in {CHOOSE k \in ShockFlipConfigs :
                                 /\ k.persistence_bars = 1
                                 /\ k.persistence_ratio.num = k.persistence_ratio.den
                                 /\ k.require_extreme},
                      w \in {1, 2}, p \in Fractions}
    /\ z = << >> /\ at_upper = << >> /\ at_lower = << >>
    /\ delta_z = None
    /\ det = None
    /\ cfg = CHOOSE c \in Configs : TRUE
    /\ closes = << >> /\ hl = << >>
    /\ pc = "idle" /\ i = 0 /\ cooldown = 0
    /\ pos = NoPosition /\ trades = << >>
    /\ rows = None /\ prev = None /\ stats = None
    /\ tick_files = << >> /\ all_bars = None

\* the frame grows by one bar away from the Donchian extremes
AddDynBar ==
    /\ pc = "idle" /\ det = None
    /\ Len(z) < DynLen
    /\ \E v \in DynZVals : z' = Append(z, v)
    /\ at_upper' = Append(at_upper, FALSE)
    /\ at_lower' = Append(at_lower, FALSE)
    /\ UNCHANGED <<sfcfg, delta_z, det, simVars, obsVars, ldVars>>

DynNext ==
    \/ AddDynBar
    \/ Detect

DynSpec == DynInit /\ [][DynNext]_vars

\* a config with cfg.source set
WithSource(c, src) == ("source" :> src) @@ c

\* the detector called with any source string, on a frame with or without a
\* delta_z column
SrcInit ==
    /\ sfcfg \in {WithSource(CHOOSE c \in ShockFlipConfigs :
                                 /\ ~c.dynamic_enabled
                                 /\ c.persistence_bars = 1
                                 /\ c.persistence_ratio.num = c.persistence_ratio.den
                                 /\ c.require_extreme, src) :
                      src \in {"imbalance", "delta", "volume"}}
    /\ z = << >> /\ at_upper = << >> /\ at_lower = << >>
    /\ delta_z \in {None, Some(<< >>)}
    /\ det = None
    /\ cfg = CHOOSE c \in Configs : TRUE
    /\ closes = << >> /\ hl = << >>
    /\ pc = "idle" /\ i = 0 /\ cooldown = 0
    /\ pos = NoPosition /\ trades = << >>
    /\ rows = None /\ prev = None /\ stats = None
    /\ tick_files = << >> /\ all_bars = None

SrcNext ==
    \/ AddBar
    \/ Detect

SrcSpec == SrcInit /\ [][SrcNext]_vars

-----------------------------------------------------------------------------
(* run_backtest_from_bars (backtest.py lines 376-415) run twice on the same   *)
(* bars, once with the diagnostics flags set and once without.                *)

\* a config with the _debug attribute the scripts attach (run_backtest.py lines
\* 142, 145)
WithDebug(c, d) == ("_debug" :> d) @@ c

\* the z column of the run: a value inside the band, a shock either way
DbgZVals == {Some(0), Some(-3), Some(3)}

\* row k of the feature frame: the detector's columns next to the ATR
FeatureRow(d, k, atr) ==
    LET base == [shockflip_signal |-> d.shockflip_signal[k + 1], atr |-> atr,
                 prior_flow_sign |-> NaNF, price_flow_div |-> NaNF, atr_pct |-> NaNF]
    IN  IF "sf_cond_jump" \in DOMAIN d
        THEN [sf_cond_jump |-> d.sf_cond_jump[k + 1],
              sf_cond_band |-> d.sf_cond_band[k + 1],
              sf_pers |-> d.sf_pers[k + 1],
              sf_at_upper |-> d.sf_at_upper[k + 1],
              sf_at_lower |-> d.sf_at_lower[k + 1],
              sf_sign |-> d.sf_sign[k + 1],
              sf_long_cond |-> d.sf_long_cond[k + 1],
              sf_short_cond |-> d.sf_short_cond[k + 1]] @@ base
        ELSE base

DbgInit ==
    /\ \E d \in BOOLEAN :
          /\ cfg = WithDebug(CHOOSE c \in Configs :
                                /\ c.risk.cooldown_bars = 1
                                /\ IsSome(c.mfe_breakeven_r)
                                /\ c.trailing_enabled, d)
          /\ sfcfg = WithDebug(CHOOSE c \in ShockFlipConfigs :
                                  /\ ~c.dynamic_enabled
                                  /\ c.persistence_bars = 1
                                  /\ c.persistence_ratio.num = c.persistence_ratio.den
                                  /\ c.require_extreme, d)
    /\ z \in [1..NumBars -> DbgZVals]
    /\ at_upper = [t \in 1..NumBars |-> FALSE]
    /\ at_lower = [t \in 1..NumBars |-> FALSE]
    /\ delta_z = None
    /\ det = None
    /\ closes = << >>
    /\ hl = << >>
    /\ pc = "features"
    /\ i = 0
    /\ cooldown = 0
    /\ pos = NoPosition
    /\ trades = << >>
    /\ rows = Some(<< >>)
    /\ prev = None
    /\ stats = None
    /\ tick_files = << >> /\ all_bars = None

\* line 380, prepare_features_for_backtest (lines 27-43): the frame the
\* simulator reads; the ATR column does not depend on the flags
PrepareFeatures ==
    /\ pc = "features"
    /\ LET d == detect_shockflip_signals(z, at_upper, at_lower, sfcfg)
       IN  /\ det' = Some(d)
           /\ \E atr \in [0..(NumBars - 1) -> AtrVals] :
                 /\ \A k \in 0..(NumBars - 1) :
                       IF k \in DOMAIN Val(rows) THEN atr[k] = Val(rows)[k].atr
                       ELSE d.shockflip_signal[k + 1] = 0 => atr[k] = None
                 /\ rows' = Some([k \in 0..(NumBars - 1) |-> FeatureRow(d, k, atr[k])])
    /\ pc' = "diag"
    /\ UNCHANGED <<simVarsButPc, sfcfg, z, delta_z, at_upper, at_lower, prev, stats, ldVars>>

\* a diagnostics block whose exception reaches the caller
DiagnoseUncaught ==
    /\ pc = "diag"
    /\ IF Debug(cfg)
       THEN \E raised \in BOOLEAN : pc' = IF raised THEN "aborted" ELSE "scan"
       ELSE pc' = "scan"
    /\ UNCHANGED <<simVarsButPc, detVars, obsVars, ldVars>>

\* lines 383-408: with cfg._debug the block prints counts and ranges read from
\* the frame; whatever it raises is caught (lines 406-408) and the run goes on
Diagnose ==
    /\ pc = "diag"
    /\ IF Debug(cfg)
       THEN \E raised \in BOOLEAN : pc' = IF raised THEN "scan" ELSE "scan"
       ELSE pc' = "scan"
    /\ UNCHANGED <<simVarsButPc, detVars, obsVars, ldVars>>

\* the first run has returned (trades, stats); the second run starts on the
\* same bars with both flags flipped
RerunOtherFlags ==
    /\ pc = "done" /\ IsSome(stats) /\ prev = None
    /\ prev' = Some([trades |-> trades, stats |-> Val(stats),
                     shockflip_signal |-> Val(det).shockflip_signal])
    /\ cfg' = [cfg EXCEPT !._debug = ~cfg._debug]
    /\ sfcfg' = [sfcfg EXCEPT !._debug = ~sfcfg._debug]
    /\ det' = None
    /\ stats' = None
    /\ trades' = << >>
    /\ cooldown' = 0
    /\ i' = 0
    /\ pos' = NoPosition
    /\ pc' = "features"
    /\ UNCHANGED <<closes, hl, rows, z, delta_z, at_upper, at_lower, ldVars>>

DbgNext ==
    \/ PrepareFeatures
    \/ Diagnose
    \/ SkipCooldown
    \/ SkipNoSignal
    \/ SkipBadAtr
    \/ OpenPosition
    \/ InnerBar
    \/ EndOfData
    \/ Finish
    \/ Summarize
    \/ RerunOtherFlags

DbgSpec == DbgInit /\ [][DbgNext]_vars

-----------------------------------------------------------------------------
(* Properties of the trade simulator (checked under Spec) *)

\* the last recorded trade
LastTrade == trades[Len(trades)]

\* a step of the inner loop that processes the next bar of the open position
NextBarOfTrade ==
    /\ pc = "manage"
    /\ pos'.entry_idx = pos.entry_idx
    /\ pos'.j = pos.j + 1

\* C1: at most one position is open at a time: of any two recorded trades the
\* later one is entered strictly after the earlier one's exit bar.
C1_OnePositionAtATime ==
    \A a, b \in 1..Len(trades) :
        a < b => trades[b].entry_idx > trades[a].exit_idx

\* C2: cooldown: each trade is entered more than cooldown_bars bars after the
\* exit bar of the trade recorded before it.
C2_CooldownAfterExit ==
    \A k \in 1..(Len(trades) - 1) :
        trades[k + 1].entry_idx > trades[k].exit_idx + cfg.risk.cooldown_bars

\* C3: zombie precedence: for any time stop (time_stop_bars, time_stop_r), a bar
\* of an open trade with bars-held >= time_stop_bars and
\* best_fav < time_stop_r * risk_per_unit closes the trade on that bar with
\* result ZOMBIE.
C3_ZombiePrecedence ==
    [][\A time_stop_bars \in 1..NumBars, time_stop_r \in {1} :
          (/\ NextBarOfTrade
           /\ pos'.j - pos'.entry_idx >= time_stop_bars
           /\ pos'.best_fav < time_stop_r * pos'.risk_per_unit)
          => /\ Len(trades') = Len(trades) + 1
             /\ LastTrade'.result = "ZOMBIE"
             /\ LastTrade'.exit_idx = pos'.j]_vars

C5_BreakevenMonotone ==
    [][(NextBarOfTrade /\ pos.be_active /\ IsSome(pos.sl_eff))
        => /\ pos.side = 1 => Val(pos'.sl_eff) >= Val(pos.sl_eff)
           /\ pos.side = -1 => Val(pos'.sl_eff) <= Val(pos.sl_eff)]_vars

\* C5 witness: the lock became active on the first bar after entry and the
\* trade has gone through a second bar with the stop at the entry price.
C5_Witness ==
    /\ pc = "manage"
    /\ pos.be_active
    /\ pos.time_to_mfe = 1
    /\ pos.j = pos.entry_idx + 2
    /\ pos.sl_eff = Some(pos.entry_price)

\* C6: trailing monotonicity: once armed, the trailing level and the effective
\* stop only move in the favourable direction from one bar of the trade to the
\* next: up for a long, down for a short.
C6_TrailingMonotone ==
    [][(NextBarOfTrade /\ pos.trailing_armed /\ IsSome(pos.trail_sl_price))
        => /\ pos.side * (Val(pos'.trail_sl_price) - Val(pos.trail_sl_price)) >= 0
           /\ pos.side * (Val(pos'.sl_eff) - Val(pos.sl_eff)) >= 0]_vars

\* C6 witness: the stop was armed on the first bar after entry and a second bar
\* moved the trailing level past the entry price.
C6_Witness ==
    /\ pc = "manage"
    /\ pos.trailing_armed
    /\ pos.j = pos.entry_idx + 2
    /\ pos.time_to_mfe = 2
    /\ pos.side * (Val(pos.trail_sl_price) - pos.entry_price) > 0

\* the high/low of the bar the open position processed last
PosBar == hl[pos.j]

\* TP touched by the bar last processed: long high >= TP, short low <= TP
TouchedTp ==
    IF pos.side = 1 THEN PosBar.high >= Val(pos.tp) ELSE PosBar.low <= Val(pos.tp)

\* effective stop touched by the bar last processed
TouchedStop ==
    IF pos.side = 1 THEN PosBar.low <= Val(pos.sl_eff) ELSE PosBar.high >= Val(pos.sl_eff)

\* C11: first touch: the inner loop takes the bars after entry one by one; a bar
\* that touches TP or the effective stop closes the trade on that bar, a bar that
\* touches neither leaves it open, so a trade under management has had no touch
\* since entry and exits on the earliest touching bar.
C11_FirstTouch ==
    /\ (pc = "manage" /\ pos.j > pos.entry_idx)
          => (~TouchedTp /\ ~TouchedStop /\ pos.exit_idx = None)
    /\ (pc # "manage" /\ pos.j > pos.entry_idx /\ (TouchedTp \/ TouchedStop))
          => /\ pos.exit_idx = Some(pos.j)
             /\ Len(trades) > 0
             /\ LastTrade.entry_idx = pos.entry_idx
             /\ LastTrade.exit_idx = pos.j

\* C11 witness: long entry at 2 with ATR 1 (TP 4, SL 1), no overlays; the next bar
\* (high 3, low 2) touches nothing, the bar after it (high 4, low 2) closes the
\* trade with result TP at 4.
C11_Witness ==
    /\ cfg.mfe_breakeven_r = None /\ ~cfg.trailing_enabled
    /\ Len(trades) > 0
    /\ LastTrade.side = 1 /\ LastTrade.entry_price = 2 /\ LastTrade.atr = 1
    /\ LastTrade.exit_idx = LastTrade.entry_idx + 2
    /\ pos.entry_idx = LastTrade.entry_idx
    /\ hl[pos.entry_idx + 1] = [high |-> 3, low |-> 2]
    /\ hl[pos.entry_idx + 2] = [high |-> 4, low |-> 2]
    /\ LastTrade.result = "TP" /\ LastTrade.exit_price = 4

\* C12: single-barrier exit: a bar that touches TP only closes the trade with
\* result TP at the TP price; a bar that touches the effective stop only closes it
\* at the effective stop with result SL, or BE when the effective stop is the
\* entry price.
C12_SingleBarrierExit ==
    (pos.j > pos.entry_idx /\ IsSome(pos.exit_idx) /\ pos.exit_idx = Some(pos.j)
        /\ IsSome(pos.tp) /\ pos.j \in DOMAIN hl) =>
        /\ (TouchedTp /\ ~TouchedStop)
              => (pos.result = Some("TP") /\ pos.exit_price = pos.tp)
        /\ (TouchedStop /\ ~TouchedTp)
              => /\ pos.exit_price = pos.sl_eff
                 /\ pos.result = Some(IF Val(pos.sl_eff) = pos.entry_price
                                      THEN "BE" ELSE "SL")

\* the move of the locals' trade in its own direction, costs set aside
GrossMove(p) == p.side * (Val(p.exit_price) - p.entry_price)

\* the label of the locals' trade is contradicted by the sign of its P&L
LabelContradicted(p) ==
    \/ (p.result = Some("TP") /\ GrossMove(p) <= 0)
    \/ (p.result = Some("BE") /\ GrossMove(p) # 0)

C14_BarriersFixedAtEntry ==
    [][NextBarOfTrade =>
          LET m == IF pos.side = 1 THEN cfg.risk.long ELSE cfg.risk.short
          IN  /\ pos'.atr = pos.atr /\ pos'.entry_price = pos.entry_price
              /\ pos'.tp = Some(pos.entry_price + pos.side * pos.atr * m.tp_mult)
              /\ pos'.sl = Some(pos.entry_price - pos.side * pos.atr * m.sl_mult)
              /\ IsSome(pos.tp) => (pos'.tp = pos.tp /\ pos'.sl = pos.sl)]_vars

\* C14 witness: a trade went through two bars of different range, the second
\* wider than the entry bar's ATR, with the levels of the first.
C14_Witness ==
    /\ pc = "manage"
    /\ pos.j = pos.entry_idx + 2
    /\ hl[pos.j].high - hl[pos.j].low > pos.atr
    /\ hl[pos.j - 1].high = hl[pos.j - 1].low
    /\ pos.tp = Some(pos.entry_price + pos.side * pos.atr *
                     (IF pos.side = 1 THEN cfg.risk.long.tp_mult ELSE cfg.risk.short.tp_mult))

\* a signal row that cannot be traded: its ATR is NaN or <= 0, or the feature
\* of a configured filter is NaN, missing or not convertible
UnusableRow(row) ==
    /\ row.shockflip_signal # 0
    /\ \/ row.atr = None
       \/ (IsSome(row.atr) /\ Val(row.atr) <= 0)
       \/ (IsSome(cfg.filters.h1_prior_flow_required_sign)
             /\ row.prior_flow_sign.kind # "num")
       \/ (IsSome(cfg.filters.h2_div_mode) /\ row.price_flow_div.kind # "num")
       \/ (IsSome(cfg.filters.h3_atr_pct_low) /\ IsSome(cfg.filters.h3_atr_pct_high)
             /\ row.atr_pct.kind # "num")

\* C15: non-fatal per-bar skip: reading a signal row whose ATR is NaN or <= 0, or
\* whose configured filter feature is NaN, missing or not convertible, opens no
\* trade and does not end the run: trade list, cooldown counter and position
\* locals stay as they are and the scan goes on with the next bar.
C15_NonFatalSkip ==
    [][(pc = "scan" /\ IsSome(rows) /\ i \notin DOMAIN Val(rows)
           /\ i \in DOMAIN Val(rows') /\ UnusableRow(Val(rows')[i]))
       => /\ pc' = "scan"
          /\ i' = i + 1
          /\ trades' = trades
          /\ cooldown' = cooldown
          /\ pos' = pos]_vars

\* C15 witness: a signal row with an unconvertible divergence value was skipped
\* under H2 and a later bar opened a trade.
C15_Witness ==
    /\ IsSome(rows)
    /\ IsSome(cfg.filters.h2_div_mode)
    /\ \E k \in DOMAIN Val(rows) :
          /\ Val(rows)[k].shockflip_signal # 0
          /\ Val(rows)[k].price_flow_div = BadF
          /\ \A t \in 1..Len(trades) : trades[t].entry_idx # k
          /\ \E t \in 1..Len(trades) : trades[t].entry_idx > k

\* C16: end-of-data fallback: a position that has gone through the last bar
\* without an exit is closed at the last bar's close, with exit_idx the last bar
\* index and result TP if side * (close - entry) > 0 and SL otherwise, and is
\* recorded; the run goes on to its end.
C16_EndOfDataFallback ==
    [][(pc = "manage" /\ pos.j = NumBars - 1) =>
          /\ pc' = "scan"
          /\ Len(trades') = Len(trades) + 1
          /\ LastTrade'.entry_idx = pos.entry_idx
          /\ LastTrade'.exit_idx = NumBars - 1
          /\ (NumBars - 1) \in DOMAIN closes'
          /\ LastTrade'.exit_price = closes'[NumBars - 1]
          /\ LastTrade'.result =
                (IF pos.side * (closes'[NumBars - 1] - pos.entry_price) > 0
                 THEN "TP" ELSE "SL")]_vars

\* C16 witness: a trade entered on the first bar touched no barrier on any later
\* bar and was closed on the last bar at a close beyond its entry, result TP.
C16_Witness ==
    /\ Len(trades) > 0
    /\ LastTrade.entry_idx = 0 /\ pos.entry_idx = 0
    /\ pos.j = NumBars - 1
    /\ ~pos.hit_tp /\ ~pos.hit_sl_eff
    /\ LastTrade.exit_idx = NumBars - 1
    /\ LastTrade.result = "TP"
    /\ LastTrade.exit_price = closes[NumBars - 1]

-----------------------------------------------------------------------------
(* Properties of the aggregator (checked under SumSpec) *)

Winners == {k \in 1..Len(trades) : trades[k].pnl > 0}
Losers == {k \in 1..Len(trades) : trades[k].pnl < 0}

\* C18: profit factor with only winners: for a list with a winning trade and no
\* losing trade the reported profit factor is a large sentinel, at least the
\* gross profit and not 0, and compute_pf reports the same value.
C18_ProfitFactorOnlyWinners ==
    (IsSome(stats) /\ Winners # {} /\ Losers = {}) =>
        /\ Val(stats).pf.num # 0
        /\ Val(stats).pf.num >= SumOver(PnlColumn(trades), Winners) * Val(stats).pf.den
        /\ compute_pf(trades) = Some(Val(stats).pf)

\* C19: summary schema: the summary of any trade list, the empty one included,
\* has the keys n, win_rate, pf and total_pnl; n is the number of trades,
\* win_rate the fraction with pnl > 0 and total_pnl the sum of pnl.
C19_SummarySchema ==
    IsSome(stats) =>
        /\ DOMAIN Val(stats) = {"n", "win_rate", "pf", "total_pnl"}
        /\ Val(stats).n = Len(trades)
        /\ Val(stats).win_rate.num * Max(1, Len(trades))
              = Cardinality(Winners) * Val(stats).win_rate.den
        /\ Val(stats).total_pnl = SumOver(PnlColumn(trades), 1..Len(trades))

\* C22: conservative tie-break of the docstring: a bar that hits both TP and the
\* stop closes the trade with the worse outcome, result SL.
C22_DocstringTieBreak ==
    (pos.hit_tp /\ pos.hit_sl_eff) =>
        /\ pos.result = Some("SL")
        /\ Len(trades) > 0
        /\ LastTrade.result = "SL"

\* the filters of f that have their threshold: H1 with a required sign, H2 in
\* extreme_only mode with a threshold or in dead_zone mode with both bounds, H3
\* with both bounds
H1Configured(f) == IsSome(f.h1_prior_flow_required_sign)
H2Configured(f) ==
    \/ f.h2_div_mode = Some("extreme_only") /\ IsSome(f.h2_div_extreme_threshold)
    \/ f.h2_div_mode = Some("dead_zone")
          /\ IsSome(f.h2_div_dead_zone_low) /\ IsSome(f.h2_div_dead_zone_high)
H3Configured(f) == IsSome(f.h3_atr_pct_low) /\ IsSome(f.h3_atr_pct_high)

\* C23: entry filters are independently optional and AND-combined: a signal bar
\* the scan rejected at the filters fails at least one filter that has its
\* threshold; a filter whose threshold is absent rejects no signal bar, whatever
\* the bar's feature value.
C23_OptionalFilters ==
    IsSome(rows) =>
        \A k \in DOMAIN Val(rows) :
            LET row == Val(rows)[k]
                f == cfg.filters
            IN  (row.shockflip_signal # 0 /\ ~PassesFilters(f, row)) =>
                    \/ H1Configured(f) /\ ~H1Pass(f, row)
                    \/ H2Configured(f) /\ ~H2Pass(f, row)
                    \/ H3Configured(f) /\ ~H3Pass(f, row)

\* the recorded trades entered at bar k
TradesEnteredAt(k) == {n \in 1..Len(trades) : trades[n].entry_idx = k}

\* a position was opened in this run
Opened == pos.side # 0

\* C24: termination and finalization: the simulator reaches its end on every
\* frame; a position under management has no trade record yet, a position that
\* left management has exactly one (the last one recorded), a record is appended
\* only by the step that closes the open position, one per position, and at the
\* end no position is open.
C24_TerminationAndFinalization ==
    /\ <>(pc = "done")
    /\ [](/\ (pc = "manage") =>
                (Opened /\ pos.exit_idx = None /\ TradesEnteredAt(pos.entry_idx) = {})
          /\ (pc # "manage" /\ Opened) =>
                /\ IsSome(pos.exit_idx)
                /\ TradesEnteredAt(pos.entry_idx) = {Len(trades)}
          /\ \A a, b \in 1..Len(trades) : a < b => trades[a].entry_idx < trades[b].entry_idx
          /\ pc \in {"scan", "manage", "done"})
    /\ [][/\ (pc = "manage" /\ pc' # "manage") =>
                /\ trades' = Append(trades, LastTrade')
                /\ LastTrade'.entry_idx = pos.entry_idx
          /\ trades' # trades => (pc = "manage" /\ pc' = "scan")]_vars

C24_Witness ==
    /\ pc = "done"
    /\ Len(trades) = 2
    /\ trades[1].exit_idx < NumBars - 1
    /\ trades[2].entry_idx = NumBars - 1
    /\ trades[2].exit_idx = NumBars - 1

\* C25: excursion tracking: from one bar of a trade to the next best_fav never
\* decreases and worst_adv never increases; time_to_mfe becomes the bar's offset
\* from entry exactly when the bar strictly improves best_fav and is kept
\* otherwise; best_fav >= 0 >= worst_adv at all times; every recorded trade has
\* 0 <= time_to_mfe_bars <= holding_period_bars.
C25_ExcursionTracking ==
    /\ [][NextBarOfTrade =>
            /\ pos'.best_fav >= pos.best_fav
            /\ pos'.worst_adv <= pos.worst_adv
            /\ pos'.best_fav > pos.best_fav => pos'.time_to_mfe = pos'.j - pos.entry_idx
            /\ pos'.best_fav = pos.best_fav => pos'.time_to_mfe = pos.time_to_mfe]_vars
    /\ [](/\ pos.best_fav >= 0 /\ pos.worst_adv <= 0
          /\ \A n \in 1..Len(trades) :
                /\ trades[n].mfe_price >= 0 /\ trades[n].mae_price <= 0
                /\ 0 <= trades[n].time_to_mfe_bars
                /\ trades[n].time_to_mfe_bars <= trades[n].holding_period_bars)

\* C25 witness: a trade whose best excursion was set on its first bar and tied,
\* not improved, on its second, where it exited.
C25_Witness ==
    /\ Len(trades) > 0
    /\ LastTrade.holding_period_bars = 2
    /\ LastTrade.time_to_mfe_bars = 1
    /\ LastTrade.mfe_price > 0 /\ LastTrade.mae_price < 0
    /\ pos.entry_idx = LastTrade.entry_idx
    /\ pos.side * (hl[pos.entry_idx + 2].high - pos.entry_price) = pos.best_fav

\* best_fav has reached be_threshold_r * risk_per_unit
BeThresholdReached(p) ==
    IF IsSome(cfg.mfe_breakeven_r)
    THEN p.best_fav >= Val(cfg.mfe_breakeven_r) * p.risk_per_unit
    ELSE FALSE

ArmReached(p) ==
    IF cfg.trailing_enabled /\ IsSome(cfg.trailing_arm_r)
    THEN p.best_fav >= Val(cfg.trailing_arm_r) * p.risk_per_unit
    ELSE FALSE

\* entry + side * max(floor_r, best_mfe_R - gap_r) * risk_per_unit
Candidate(p) ==
    p.entry_price
      + p.side * Max(Val(cfg.trailing_floor_r) * p.risk_per_unit,
                     p.best_fav - Val(cfg.trailing_gap_r) * p.risk_per_unit)

\* the more favourable of a trailing level and a candidate
MostFavourable(side, level, candidate) ==
    IF level = None THEN candidate
    ELSE IF side = 1 THEN Max(Val(level), candidate) ELSE Min(Val(level), candidate)

\* C27: trailing stop arming: on each bar of a trade the stop is armed exactly if
\* it was armed before or the best favourable excursion in R has now reached
\* arm_r, so it is never armed earlier, stays armed, and is never armed when
\* trailing is disabled or arm_r is absent; on each bar while armed the trailing
\* level is the more favourable of the level before and the bar's candidate
\* entry + side * max(floor_r, best_mfe_R - gap_r) * risk_per_unit.
C27_TrailingArming ==
    /\ [][NextBarOfTrade =>
            /\ pos'.trailing_armed <=> (pos.trailing_armed \/ ArmReached(pos'))
            /\ pos'.trailing_armed =>
                  pos'.trail_sl_price =
                      Some(MostFavourable(pos.side, pos.trail_sl_price, Candidate(pos')))]_vars
    /\ [](/\ pos.trailing_armed => (Opened /\ ArmReached(pos))
          /\ ~pos.trailing_armed => pos.trail_sl_price = None
          /\ (~cfg.trailing_enabled \/ cfg.trailing_arm_r = None) => ~pos.trailing_armed)

\* C27 witness: floor_r = 1, gap_r = 1; a short whose first bar brought best_fav
\* to one R: the stop armed with the level at the floor, one R past entry (the
\* gap alone would have left it at entry), and the trade exited there.
C27_Witness ==
    /\ cfg.trailing_floor_r = Some(1)
    /\ pos.side = -1
    /\ pos.trailing_armed
    /\ pos.j = pos.entry_idx + 1
    /\ pos.best_fav = pos.risk_per_unit
    /\ pos.trail_sl_price = Some(pos.entry_price - pos.risk_per_unit)
    /\ Len(trades) > 0
    /\ LastTrade.entry_idx = pos.entry_idx
    /\ LastTrade.exit_price = pos.entry_price - pos.risk_per_unit

\* C28: fresh position state: the step that opens a position, whatever the
\* locals the trade before left, sets the entry at the signal bar and its close,
\* best_fav = worst_adv = 0, time_to_mfe = 0, breakeven inactive, trailing
\* unarmed with no level, and no exit.
C28_FreshPositionState ==
    [][(pc = "scan" /\ pc' = "manage") =>
          /\ pos'.entry_idx = i /\ pos'.j = i
          /\ pos'.entry_price = closes'[i]
          /\ pos'.side \in {-1, 1}
          /\ pos'.best_fav = 0 /\ pos'.worst_adv = 0 /\ pos'.time_to_mfe = 0
          /\ ~pos'.be_active
          /\ ~pos'.trailing_armed /\ pos'.trail_sl_price = None
          /\ pos'.exit_idx = None /\ pos'.exit_price = None /\ pos'.result = None]_vars

\* C28 witness: the trade before ended at a trailing level with breakeven active
\* and a positive excursion; the position opened after it starts from zero.
C28_Witness ==
    /\ pc = "manage"
    /\ pos.j = pos.entry_idx
    /\ Len(trades) = 1
    /\ IsSome(cfg.mfe_breakeven_r) /\ cfg.trailing_enabled
    /\ trades[1].mfe_price >= 2 * trades[1].atr
    /\ trades[1].result = "TP"
    /\ trades[1].side * (trades[1].exit_price - trades[1].entry_price) = trades[1].atr
    /\ pos.best_fav = 0 /\ ~pos.be_active /\ ~pos.trailing_armed

\* C30: cooldown counter mechanics: the step that records a trade entered at
\* bar e sets the counter to cooldown_bars and resumes the scan at e + 1; a
\* scanned bar with the counter positive lowers it by exactly one and is not
\* evaluated as an entry, whatever its signal; the counter stays within
\* 0..cooldown_bars; entry indices are strictly increasing and consecutive
\* entries are at least cooldown_bars + 1 bars apart.
C30_CooldownCounter ==
    /\ [][/\ trades' # trades =>
                /\ cooldown' = cfg.risk.cooldown_bars
                /\ i' = pos.entry_idx + 1
          /\ (pc = "scan" /\ cooldown > 0 /\ i < NumBars) =>
                /\ cooldown' = cooldown - 1
                /\ i' = i + 1
                /\ pc' = "scan" /\ pos' = pos /\ trades' = trades]_vars
    /\ [](/\ cooldown \in 0..cfg.risk.cooldown_bars
          /\ \A k \in 1..(Len(trades) - 1) :
                trades[k + 1].entry_idx >= trades[k].entry_idx + cfg.risk.cooldown_bars + 1
          /\ (pc = "scan" /\ Len(trades) > 0) =>
                cooldown = Max(0, cfg.risk.cooldown_bars - (i - LastTrade.entry_idx - 1)))

\* C30 witness: cooldown_bars = 1 and a signal on every bar: the trade entered at
\* bar 0 is followed by one entered at bar 2; bar 1 was skipped with its signal.
C30_Witness ==
    /\ cfg.risk.cooldown_bars = 1
    /\ \A k \in 0..(NumBars - 1) : Val(rows)[k].shockflip_signal # 0
    /\ Len(trades) = 2
    /\ trades[1].entry_idx = 0
    /\ trades[2].entry_idx = 2
    /\ pc = "done"

\* |price_flow_div| of a row lies in the dead zone (low, high] of f
InDeadZone(f, row) ==
    /\ IsSome(f.h2_div_dead_zone_low) /\ IsSome(f.h2_div_dead_zone_high)
    /\ row.price_flow_div.kind = "num"
    /\ Val(f.h2_div_dead_zone_low) < Abs(row.price_flow_div.v)
    /\ Abs(row.price_flow_div.v) <= Val(f.h2_div_dead_zone_high)

\* C31: dead-zone divergence filter end to end: with a configuration built by
\* build_backtest_config that carries dead_zone_low and dead_zone_high, no
\* recorded trade and no open position was entered on a signal bar whose
\* |price_flow_div| lies in (dead_zone_low, dead_zone_high].
C31_DeadZoneEndToEnd ==
    /\ \A n \in 1..Len(trades) : ~InDeadZone(cfg.filters, Val(rows)[trades[n].entry_idx])
    /\ Opened => ~InDeadZone(cfg.filters, Val(rows)[pos.entry_idx])

\* what does hold for the built configuration: the divergence gate is never
\* evaluated, every signal bar that passes H1 outside a cooldown is entered
C31_GateNeverEvaluated ==
    /\ cfg.filters.h2_div_mode = None
    /\ \A k \in 0..(NumBars - 1) : H2Pass(cfg.filters, Val(rows)[k])

\* the favourable move of bar b for a position of that side: up to the high for
\* a long, down to the low for a short
FavourableMove(side, entry_price, b) ==
    IF side = 1 THEN b.high - entry_price ELSE entry_price - b.low

\* the step processes the bar whose favourable move first reaches the breakeven
\* threshold
ActivatingBar ==
    /\ NextBarOfTrade
    /\ IsSome(cfg.mfe_breakeven_r)
    /\ ~pos.be_active
    /\ FavourableMove(pos.side, pos.entry_price, hl'[pos'.j])
          >= Val(cfg.mfe_breakeven_r) * pos.risk_per_unit

\* C32: breakeven takes effect on the activating bar: on the bar whose high
\* (long) or low (short) first brings the favourable excursion to the threshold
\* the effective stop of that bar's barrier test is already at the entry price
\* or better, and a long whose activating bar has low <= entry without reaching
\* TP and without a trailing stop above the entry exits there, BE at the entry.
C32_BreakevenOnActivatingBar ==
    [][ActivatingBar =>
          /\ pos'.be_active
          /\ pos.side * (Val(pos'.sl_eff) - pos.entry_price) >= 0
          /\ (/\ pos.side = 1
              /\ hl'[pos'.j].low <= pos.entry_price
              /\ ~pos'.hit_tp
              /\ Val(pos'.sl_eff) = pos.entry_price) =>
                 /\ pos'.exit_idx = Some(pos'.j)
                 /\ pos'.result = Some("BE")
                 /\ pos'.exit_price = Some(pos.entry_price)]_vars

\* what holds with the excursion as the code measures it, side * (high - entry)
\* for both sides: the lock acts on the bar that activates it
C32_ActivationAsMeasured ==
    [][(/\ NextBarOfTrade
        /\ IsSome(cfg.mfe_breakeven_r)
        /\ ~pos.be_active
        /\ pos.side * (hl'[pos'.j].high - pos.entry_price)
              >= Val(cfg.mfe_breakeven_r) * pos.risk_per_unit) =>
          /\ pos'.be_active
          /\ pos.side * (Val(pos'.sl_eff) - pos.entry_price) >= 0
          /\ (/\ pos.side = 1
              /\ hl'[pos'.j].low <= pos.entry_price
              /\ ~pos'.hit_tp
              /\ Val(pos'.sl_eff) = pos.entry_price) =>
                 /\ pos'.exit_idx = Some(pos'.j)
                 /\ pos'.result = Some("BE")
                 /\ pos'.exit_price = Some(pos.entry_price)]_vars

\* C33: exit strictly after entry: every recorded trade has exit_idx > entry_idx,
\* that is holding_period_bars >= 1, wherever in the frame its signal was.
C33_ExitStrictlyAfterEntry ==
    \A n \in 1..Len(trades) :
        /\ trades[n].exit_idx > trades[n].entry_idx
        /\ trades[n].holding_period_bars >= 1

\* what holds: a trade closed by a barrier exits after its entry bar, and a trade
\* with holding period 0 is the end-of-data exit of a signal on the last bar
C33_ZeroHoldingOnlyOnLastBar ==
    \A n \in 1..Len(trades) :
        /\ trades[n].exit_idx >= trades[n].entry_idx
        /\ trades[n].holding_period_bars = trades[n].exit_idx - trades[n].entry_idx
        /\ trades[n].exit_idx = trades[n].entry_idx =>
              /\ trades[n].entry_idx = NumBars - 1
              /\ trades[n].exit_price = trades[n].entry_price
              /\ trades[n].result = "SL"

\* the gross return of a recorded trade, in its own direction
Gross(t) == t.side * (t.exit_price - t.entry_price)

\* C34: label agrees with gross return: every recorded trade with result TP has
\* side * (exit_price - entry_price) > 0, every BE has exit_price = entry_price,
\* every SL has side * (exit_price - entry_price) <= 0, whichever way it was
\* closed; no other label is recorded.
C34_LabelAgreesWithGross ==
    \A n \in 1..Len(trades) :
        /\ trades[n].result \in {"TP", "BE", "SL"}
        /\ trades[n].result = "TP" => Gross(trades[n]) > 0
        /\ trades[n].result = "BE" => trades[n].exit_price = trades[n].entry_price
        /\ trades[n].result = "SL" => Gross(trades[n]) <= 0

\* C34 witness: a short closed on its second bar by the trailing stop, one R in
\* profit and short of its TP: recorded as TP with a positive gross return.
C34_Witness ==
    /\ pc = "done"
    /\ Len(trades) > 0
    /\ LastTrade.side = -1
    /\ LastTrade.result = "TP"
    /\ LastTrade.holding_period_bars = 2
    /\ pos.hit_sl_eff /\ ~pos.hit_tp
    /\ LastTrade.exit_price = LastTrade.entry_price - pos.risk_per_unit
    /\ Gross(LastTrade) = pos.risk_per_unit

\* the last position was closed by a barrier (TP or the effective stop)
ClosedByBarrier ==
    /\ Opened
    /\ IsSome(pos.exit_idx)
    /\ (pos.hit_tp \/ pos.hit_sl_eff)

\* the bar on which the last position was closed
ExitBar == hl[Val(pos.exit_idx)]

\* C35 as stated: the exit price of a trade closed by a barrier lies within the
\* exit bar's [low, high] range.
C35_ExitPriceTradable ==
    ClosedByBarrier =>
        /\ ExitBar.low <= Val(pos.exit_price)
        /\ Val(pos.exit_price) <= ExitBar.high

\* C35 amended: the exit price of a trade closed by a barrier is the level of
\* that barrier, and the exit bar reached it from the side the level is tested
\* on: for a long a TP exit has high >= exit_price and a stop exit has
\* low <= exit_price, for a short the mirror image; the bar need not contain it.
C35_ExitPriceReached ==
    ClosedByBarrier =>
        IF pos.hit_sl_eff
        THEN /\ pos.exit_price = pos.sl_eff
             /\ IF pos.side = 1 THEN ExitBar.low <= Val(pos.exit_price)
                                ELSE ExitBar.high >= Val(pos.exit_price)
        ELSE /\ pos.exit_price = pos.tp
             /\ IF pos.side = 1 THEN ExitBar.high >= Val(pos.exit_price)
                                ELSE ExitBar.low <= Val(pos.exit_price)

\* C35 witness: a short stopped out by a bar that lies wholly above its stop: the
\* trade is recorded at the stop level, below the bar's low.
C35_Witness ==
    /\ ClosedByBarrier
    /\ pos.side = -1
    /\ pos.hit_sl_eff /\ ~pos.hit_tp
    /\ ExitBar.low > Val(pos.exit_price)
    /\ Len(trades) > 0
    /\ LastTrade.exit_price = Val(pos.sl_eff)

\* the window of bar t is full: bars t - window + 1 .. t exist
WindowFull(t, window) == t - window + 1 >= 0

\* C36: Donchian extreme flags: at_upper_extreme at bar t is true exactly when
\* the window is full and the bar's high is >= every high of the trailing
\* donchian_window bars (ties included), at_lower_extreme likewise for the lows,
\* and both flags are false on every bar before the window has filled.
C36_DonchianExtremes ==
    IsSome(rows) =>
        LET w == sfcfg.donchian_window
            f == Val(rows)
        IN  /\ DOMAIN f = DOMAIN hl
            /\ \A t \in DOMAIN f :
                  /\ f[t].at_upper_extreme <=>
                        (/\ WindowFull(t, w)
                         /\ \A k \in (t - w + 1)..t : hl[t].high >= hl[k].high)
                  /\ f[t].at_lower_extreme <=>
                        (/\ WindowFull(t, w)
                         /\ \A k \in (t - w + 1)..t : hl[t].low <= hl[k].low)
                  /\ ~WindowFull(t, w) =>
                        (~f[t].at_upper_extreme /\ ~f[t].at_lower_extreme)

\* C36 witness: window 3 over four bars: the first two bars carry no flag, bar 2
\* ties the window's high set by bar 0 and is flagged, bar 3 is flagged at the
\* lower extreme only.
C36_Witness ==
    /\ IsSome(rows)
    /\ sfcfg.donchian_window = 3
    /\ DOMAIN hl = 0..3
    /\ hl[0].high = 3 /\ hl[1].high = 2 /\ hl[2].high = 3 /\ hl[3].high = 2
    /\ ~Val(rows)[0].at_upper_extreme /\ ~Val(rows)[1].at_upper_extreme
    /\ ~Val(rows)[0].at_lower_extreme /\ ~Val(rows)[1].at_lower_extreme
    /\ Val(rows)[2].at_upper_extreme
    /\ ~Val(rows)[3].at_upper_extreme /\ Val(rows)[3].at_lower_extreme

\* C37: bar ordering from the loader: the bars returned by
\* resample_ticks_dir_to_bars have strictly increasing timestamps, one bar per
\* timeframe bucket, whatever the tick files hold.
C37_BarOrdering ==
    IsSome(all_bars) =>
        \A k \in 1..(Len(Val(all_bars)) - 1) :
            Val(all_bars)[k].timestamp < Val(all_bars)[k + 1].timestamp

\* what holds: timestamps never decrease, each file contributes one bar per
\* bucket it has ticks in, and the timestamps are strictly increasing when no
\* two files have ticks in the same bucket
C37_OrderedUpToSharedBuckets ==
    IsSome(all_bars) =>
        LET b == Val(all_bars)
            buckets(k) == {Bucket(tick_files[k].ticks[n].ts) :
                              n \in 1..Len(tick_files[k].ticks)}
            V == ValidTickFiles(tick_files)
        IN  /\ \A k \in 1..(Len(b) - 1) : b[k].timestamp <= b[k + 1].timestamp
            /\ \A t \in 0..3 :
                  Cardinality({k \in 1..Len(b) : b[k].timestamp = t})
                     = Cardinality({k \in V : t \in buckets(k)})
            /\ (\A k, m \in V : k # m => buckets(k) \cap buckets(m) = {}) =>
                  \A k \in 1..(Len(b) - 1) : b[k].timestamp < b[k + 1].timestamp

-----------------------------------------------------------------------------
(* Properties of the diagnostics (checked under DbgSpec) *)

\* C20: diagnostics do not interfere: the run with cfg._debug and
\* shockflip._debug set and the run without them, on the same bars, yield the
\* same shockflip_signal column, the same trade list and the same summary, and
\* no run is aborted by its diagnostics block.
C20_DiagnosticsDoNotInterfere ==
    /\ pc # "aborted"
    /\ IsSome(prev) =>
          /\ IsSome(det) => Val(det).shockflip_signal = Val(prev).shockflip_signal
          /\ Len(trades) <= Len(Val(prev).trades)
          /\ \A k \in 1..Len(trades) : trades[k] = Val(prev).trades[k]
          /\ IsSome(stats) =>
                /\ trades = Val(prev).trades
                /\ Val(stats) = Val(prev).stats

C20_Witness ==
    /\ IsSome(prev) /\ IsSome(stats)
    /\ Debug(cfg) /\ Debug(sfcfg)
    /\ "sf_long_cond" \in DOMAIN Val(det)
    /\ \E t \in 1..NumBars : Val(det).sf_long_cond[t]
    /\ Len(trades) = 2
    /\ Val(stats).n = 2

-----------------------------------------------------------------------------
(* Properties of the source selection (checked under SrcSpec) *)

UnsupportedSource ==
    \/ Source(sfcfg) \notin {"imbalance", "delta"}
    \/ Source(sfcfg) = "delta" /\ delta_z = None

\* C21: unsupported signal source is fatal: a call of detect_shockflip_signals
\* with a source other than 'imbalance' and 'delta', or with 'delta' on a frame
\* without delta_z, raises; it produces no signal column and leaves the input
\* frame as it was.  With a supported source the call returns the signal
\* columns computed on the selected column.
C21_UnsupportedSourceFatal ==
    [][z' = z =>
          /\ delta_z' = delta_z /\ at_upper' = at_upper /\ at_lower' = at_lower
          /\ IF UnsupportedSource
             THEN pc' = "raised" /\ det' = None
             ELSE /\ pc' = "idle" /\ IsSome(det')
                  /\ Val(det').shockflip_z =
                        (IF Source(sfcfg) = "delta" THEN Val(delta_z) ELSE z)]_vars

C21_Witness ==
    /\ pc = "raised" /\ det = None
    /\ Source(sfcfg) = "delta" /\ delta_z = None
    /\ Len(z) = MaxLen
    /\ \E t \in 1..Len(z) : IsSome(z[t]) /\ Val(z[t]) = 3

-----------------------------------------------------------------------------
(* Properties of the dynamic threshold (checked under DynSpec) *)

\* the bars of the lookback at bar t, the trailing 4 * z_window bars, that
\* carry a defined |z|
Lookback(t) == {k \in 1..t : k > t - 4 * sfcfg.z_window /\ IsSome(z[k])}

\* the dynamic_percentile quantile (linear interpolation between the two
\* neighbouring order statistics) of |z| over the positions K, times the scale
QuantileOver(K) ==
    LET n == Cardinality(K)
        q == sfcfg.dynamic_percentile
        h == q.num * (n - 1)
        below == Sorted(z, K, h \div q.den)
        above == Sorted(z, K, IF h % q.den = 0 THEN h \div q.den ELSE h \div q.den + 1)
    IN  q.den * below + (above - below) * (h % q.den)

\* C29: dynamic threshold enabled: at every bar the jump threshold is
\* max(jump_band, dynamic_percentile quantile of |z| over the trailing
\* 4 * z_window bars), never below jump_band, and it is jump_band where the
\* lookback holds fewer than z_window defined |z| values.
C29_DynamicThreshold ==
    (IsSome(det) /\ sfcfg.dynamic_enabled) =>
        \A t \in 1..Len(z) :
            LET K == Lookback(t)
                jump_band == Scale(sfcfg) * sfcfg.jump_band
                thr == Val(det).jump_threshold[t]
            IN  /\ thr >= jump_band
                /\ Cardinality(K) < sfcfg.z_window => thr = jump_band
                /\ Cardinality(K) >= sfcfg.z_window =>
                      thr = Max(jump_band, QuantileOver(K))
                /\ (Cardinality(K) >= sfcfg.z_window
                      /\ sfcfg.dynamic_percentile.num = sfcfg.dynamic_percentile.den) =>
                      \E k \in K : /\ thr = Max(jump_band, Abs(Val(z[k])))
                                   /\ \A m \in K : Abs(Val(z[m])) <= Abs(Val(z[k]))

\* C29 witness: z_window = 1 and the maximum as quantile; the first bar's
\* |z| = 4 set the threshold for the four bars of its lookback and has left the
\* lookback of the fifth bar, where the threshold is back at 3.
C29_Witness ==
    /\ IsSome(det)
    /\ sfcfg.z_window = 1
    /\ sfcfg.dynamic_percentile.num = sfcfg.dynamic_percentile.den
    /\ Len(z) = DynLen
    /\ z[1] = Some(4)
    /\ Val(det).jump_threshold[4] = 4 * Scale(sfcfg)
    /\ Val(det).jump_threshold[5] = 3 * Scale(sfcfg)

-----------------------------------------------------------------------------
(* Properties of the signal detector (checked under DetSpec) *)

\* the signal column, once computed
Signal(t) == Val(det).shockflip_signal[t]

\* the bars among the persistence_bars bars ending at t whose z has the sign of
\* z[t] and |z| >= z_band
Persistent(t) ==
    {k \in (t - sfcfg.persistence_bars + 1)..t :
        /\ k >= 1
        /\ IsSome(z[k]) /\ IsSome(z[t])
        /\ Sgn(Val(z[k])) = Sgn(Val(z[t]))
        /\ Abs(Val(z[k])) >= sfcfg.z_band}

\* gates A to C of the signal definition at bar t
GatesABC(t) ==
    /\ IsSome(z[t])
    /\ Scale(sfcfg) * Abs(Val(z[t])) >= Val(det).jump_threshold[t]
    /\ Abs(Val(z[t])) >= sfcfg.z_band
    /\ t >= sfcfg.persistence_bars
    /\ Cardinality(Persistent(t)) * sfcfg.persistence_ratio.den
          >= sfcfg.persistence_ratio.num * sfcfg.persistence_bars

\* C7: persistence gate: a non-zero signal at a bar means that at least
\* persistence_ratio of the persistence_bars bars ending there share the sign of
\* its z with |z| >= z_band; no signal before bar persistence_bars - 1.
C7_PersistenceGate ==
    IsSome(det) =>
        \A t \in 1..Len(z) :
            Signal(t) # 0 =>
                /\ t - 1 >= sfcfg.persistence_bars - 1
                /\ Cardinality(Persistent(t)) * sfcfg.persistence_ratio.den
                      >= sfcfg.persistence_ratio.num * sfcfg.persistence_bars

\* C7 witness: a signal at the second bar under a two-bar window of which only
\* the signal bar itself is persistent (the fraction is exactly one half).
C7_Witness ==
    /\ IsSome(det)
    /\ Len(z) = 2
    /\ sfcfg.persistence_bars = 2
    /\ Signal(2) # 0
    /\ Persistent(2) = {2}

\* C8: location gate: with require_extreme a long signal is only on a bar at the
\* lower extreme and a short signal only on a bar at the upper extreme.
C8_LocationGate ==
    (IsSome(det) /\ sfcfg.require_extreme) =>
        \A t \in 1..Len(z) :
            /\ Signal(t) = 1 => at_lower[t]
            /\ Signal(t) = -1 => at_upper[t]

\* C9: signal definition: +1 exactly when z > 0 and gates A, B, C, D pass, -1
\* exactly when z < 0 and A, B, C, D (upper extreme) pass, 0 otherwise; in
\* particular 0 where z is NaN or zero.
C9_SignalDefinition ==
    IsSome(det) =>
        \A t \in 1..Len(z) :
            LET long == /\ GatesABC(t) /\ Val(z[t]) > 0
                        /\ (sfcfg.require_extreme => at_lower[t])
                short == /\ GatesABC(t) /\ Val(z[t]) < 0
                         /\ (sfcfg.require_extreme => at_upper[t])
            IN  /\ Signal(t) \in {-1, 0, 1}
                /\ Signal(t) = 1 <=> long
                /\ Signal(t) = -1 <=> short
                /\ (~IsSome(z[t]) \/ z[t] = Some(0)) => Signal(t) = 0

\* C10: with dynamic_enabled false the jump threshold is jump_band at every
\* bar, whatever the z series.
C10_StaticThreshold ==
    (IsSome(det) /\ ~sfcfg.dynamic_enabled) =>
        \A t \in 1..Len(z) :
            Val(det).jump_threshold[t] = Scale(sfcfg) * sfcfg.jump_band

\* C10 witness: dynamic thresholds are off and the series holds a |z| above
\* jump_band, which a rolling percentile would have picked up.
C10_Witness ==
    /\ IsSome(det)
    /\ ~sfcfg.dynamic_enabled
    /\ Len(z) = 2
    /\ \E t \in 1..Len(z) : IsSome(z[t]) /\ Abs(Val(z[t])) > sfcfg.jump_band
    /\ Signal(2) # 0

=============================================================================
